---- MODULE Spec2Model ----
(***************************************************************************)
(* State-machine model of the XIAO nRF52840 Sense receiver:                *)
(*   DataBuffer (ble_receiver.py), RecordFileWriter / RecordingWorker-     *)
(*   Thread / RecorderManager (data_recorder.py), the BLE line assembler   *)
(*   and message-queue consumer (ble_receiver.py) and the retry loop of    *)
(*   the oscilloscope application (oscilloscope/app.py).                   *)
(*                                                                         *)
(* A sensor row is modelled by the ordinal of its append (0, 1, 2, ...),   *)
(* which makes every row distinguishable; without clear() the ordinal of   *)
(* a row is also its logical index in the buffer.                          *)
(***************************************************************************)
EXTENDS Integers, Sequences, FiniteSets, TLC

\* ------------------------------------------------------------------ bounds
MaxCapacity == 3
MaxAppends == 4
MaxRecorded == 3
MaxCount == 4
MaxSessions == 2
MaxClock == 1
MaxAliveAtStart == 0
MaxStream == 4
MaxDelivered == 2
MaxNotifications == 3
MaxListedRows == 1
MaxScan == 2
MaxTail == 2
MaxCallers == 2
MaxThreads == 3

\* ------------------------------------------------------- program constants
DefaultBufferSize == 100
DefaultListLimit == 50
DumpThreshold == 256
SoftLimit == 65536
MaxRetries == 5
RetryDelayMs == 3000
BackoffNum == 3
BackoffDen == 2

\* ----------------------------------------------------------------- helpers
Max(a, b) == IF a >= b THEN a ELSE b
Min(a, b) == IF a <= b THEN a ELSE b

\* Python list slicing s[a:b] for 0 <= a, 0 <= b (b is clipped to len(s)).
PySlice(s, a, b) == SubSeq(s, a + 1, Min(b, Len(s)))

\* The rows with ordinals a .. b in increasing order (empty when b < a).
Ids(a, b) == [k \in 1..(b - a + 1) |-> a + k - 1]

Range(s) == {s[k] : k \in 1..Len(s)}

StrictlyIncreasing(s) == \A i, j \in 1..Len(s) : i < j => s[i] < s[j]

VARIABLES
    max_size,      \* DataBuffer._max_size
    buffer,        \* DataBuffer._buffer (deque, oldest first)
    write_index,   \* DataBuffer._write_index
    base_index,    \* DataBuffer._base_index
    fill_level,    \* DataBuffer._stats.fill_level
    appended,      \* number of append() calls ever made (ordinal of next row)
    cleared,       \* clear() has been called at least once
    buffer_lock,   \* DataBuffer._lock: 0 when free, else the worker that holds it
    last,          \* the last DataBuffer call: operation, argument, result
    rd_index,      \* incremental reader: index it passes to get_since_index
    rd_got,        \* incremental reader: every row it has been handed
    rd_lost,       \* incremental reader: some call reported dropped = True
    clock,         \* wall clock second read by the latest start_recording
    is_recording,  \* RecorderManager._is_recording
    current_session, \* RecorderManager._current_session (0 is None)
    file_writer,   \* RecorderManager._file_writer (0 is None, else the writer)
    worker_thread, \* RecorderManager._worker_thread (0 is None, else the worker)
    mgr_start_time, \* RecorderManager._start_time (-1 is None)
    mgr_pc,        \* "idle", or "joining" while stop_recording holds the lock
    writers,       \* the RecordFileWriter objects, one per session started
    workers,       \* the RecordingWorkerThread objects, one per session
    files,         \* the CSV files on disk, by path
    meta,          \* the .meta.json files on disk, by path (-1: absent)
    sessions,      \* number of RecordFileWriter objects created so far
    start_wi,      \* latest session: write_index when start_recording returned
    stop_wi,       \* latest session: write_index when stop_recording was called
    mcall,         \* the last RecorderManager call and its outcome
    failed_sessions, \* sessions whose start was rolled back, whose worker had
                   \* failed when stop read its error, or whose close raised
    lossy_sessions, \* sessions closed by stop_recording whose worker had met
                   \* a poll with lost data
    fa_buffer,     \* stream_rows: buffer, the bytearray of received bytes
    fa_dumped,     \* stream_rows: debug_hex_dumped["dumped"]
    fa_fed,        \* every byte the notification handler has been given
    fa_out,        \* every line the notification handler has queued
    sup_pc,        \* collect_data_with_retry: "loop", "stream", "sleep", "done"
    retry_count,   \* collect_data_with_retry: retry_count
    data_count,    \* collect_data_with_retry: data_count of the current attempt
    app_stop_event, \* OscilloscopeApp._stop_event
    collection_paused, \* OscilloscopeApp._collection_paused
    src_connected, \* BleDataSource._connected
    sup_delay,     \* current_delay of the latest backoff sleep, in ms (0: none)
    sup_result,    \* how the retry loop ended ("running" until it has)
    sup_attempts,  \* number of attempts started (passes through the try body)
    sup_rows,      \* number of rows the data stream has yielded, all attempts
    sup_streak,    \* failed attempts since the stream last yielded a row
    ss_pc,         \* stream_rows: "init", "waiting" (in queue.get), "yielded",
                   \* "abandoned" (suspended at the yield, consumer gone), "done"
    ss_idle_timeout, \* stream_rows: idle_timeout is not None
    ss_connected,  \* BleakClient.is_connected
    ss_disconnected, \* stream_rows: the disconnected event
    ss_notifying,  \* the notification subscription is active
    ss_queue,      \* stream_rows: queue (lines and None sentinels, oldest first)
    ss_yielded,    \* the rows stream_rows has yielded, as the lines they came from
    ss_result,     \* how the session ended ("" until it has)
    ss_unsubs,     \* number of stop_notify calls
    ss_notes,      \* number of notifications the transport has delivered
    ss_last,       \* what the consumer loop did last
    rt_pc,         \* round trip of one line: "line", "parsed", "formatted", "reparsed"
    rt_line,       \* the line received
    rt_row,        \* ImuRow.parse_csv(rt_line)
    rt_csv,        \* RecordFileWriter._format_csv_row(rt_row)
    rt_back,       \* ImuRow.parse_csv(rt_csv)
    scan_pc,       \* find_device: "scanned", "returned"
    scan_results,  \* the devices of the scan, in the order of devices_adv.values()
    scan_found,    \* position in scan_results of the device returned, 0 for None
    data_thread,   \* OscilloscopeApp._data_thread: a thread object, 0 for None
    dc_status,     \* every thread object: "none", "created", "alive", "dead"
    dc_pc,         \* each caller of start/stop_data_collection: where it is
    lk_owner,      \* the thread that holds each lock, "free" if none
    lk_count,      \* how many times the owner has acquired each lock
    lk_pc,         \* where each thread is in the operation it executes
    lk_recording,  \* RecorderManager._is_recording
    lk_handle,     \* the manager's file writer has its file handle
    lk_stop        \* the stop event of the recording worker

bufData == <<max_size, buffer, write_index, base_index, fill_level, appended, cleared>>
bufVars == <<bufData, buffer_lock>>
rdVars == <<rd_index, rd_got, rd_lost>>
mgrVars == <<is_recording, current_session, file_writer, worker_thread, mgr_start_time>>
recVars == <<clock, mgrVars, mgr_pc, writers, workers, files, meta, sessions, start_wi, stop_wi,
            mcall, failed_sessions, lossy_sessions>>
faVars == <<fa_buffer, fa_dumped, fa_fed, fa_out>>
supVars == <<sup_pc, retry_count, data_count, app_stop_event, collection_paused,
             src_connected, sup_delay, sup_result, sup_attempts, sup_rows, sup_streak>>
sessVars == <<ss_pc, ss_idle_timeout, ss_connected, ss_disconnected, ss_notifying,
              ss_queue, ss_yielded, ss_result, ss_unsubs, ss_notes, ss_last>>
appVars == <<supVars, sessVars>>
rtVars == <<rt_pc, rt_line, rt_row, rt_csv, rt_back>>
scanVars == <<scan_pc, scan_results, scan_found>>
dcVars == <<data_thread, dc_status, dc_pc>>
lkVars == <<lk_owner, lk_count, lk_pc, lk_recording, lk_handle, lk_stop>>
pureVars == <<rtVars, scanVars, dcVars, lkVars>>
vars == <<bufVars, last, rdVars, recVars, faVars, appVars, pureVars>>

NoCall == [op |-> "none", arg |-> 0, samples |-> <<>>, next_index |-> 0, dropped |-> FALSE]

\* ------------------------------------------------------------- DataBuffer
\* DataBuffer.__init__
BufferInit(cap) ==
    /\ max_size = cap
    /\ buffer = <<>>
    /\ write_index = 0
    /\ base_index = 0
    /\ fill_level = 0
    /\ appended = 0
    /\ cleared = FALSE
    /\ buffer_lock = 0

deque_append_KeepOldest(d, row, maxlen) ==
    IF Len(d) >= maxlen THEN d ELSE Append(d, row)

\* deque(maxlen=max_size).append: the oldest element falls out when full.
deque_append(d, row, maxlen) ==
    IF maxlen = 0 THEN <<>>
    ELSE IF Len(d) = maxlen THEN Append(Tail(d), row)
    ELSE Append(d, row)

base_index_after_append_NoAdvance(len, base, maxlen) == base

\* append, the eviction bookkeeping: "if len(self._buffer) == self._max_size:
\* self._base_index += 1".
base_index_after_append(len, base, maxlen) ==
    IF len = maxlen THEN base + 1 ELSE base

\* DataBuffer.append (one critical section under the buffer lock)
append(row) ==
    /\ buffer_lock = 0
    /\ base_index' = base_index_after_append(Len(buffer), base_index, max_size)
    /\ buffer' = deque_append(buffer, row, max_size)
    /\ write_index' = write_index + 1
    /\ fill_level' = Len(buffer')
    /\ UNCHANGED <<max_size, cleared, buffer_lock>>

\* DataBuffer.get_recent: list(buf)[-count:] if count <= len(buf) else list(buf).
\* In Python s[-0:] is s[0:], the whole list.
get_recent(buf, count) ==
    IF count <= Len(buf)
    THEN (IF count = 0 THEN buf ELSE SubSeq(buf, Len(buf) - count + 1, Len(buf)))
    ELSE buf

get_since_index_NoRebase(buf, wi, bi, last_index) ==
    IF last_index < bi
    THEN [samples |-> buf, next_index |-> wi, dropped |-> TRUE]
    ELSE LET start_offset == Max(0, last_index)
             end_offset == wi - bi
         IN IF start_offset >= Len(buf)
            THEN [samples |-> <<>>, next_index |-> wi, dropped |-> FALSE]
            ELSE [samples |-> PySlice(buf, start_offset, end_offset),
                  next_index |-> wi, dropped |-> FALSE]

get_since_index_DroppedAtBase(buf, wi, bi, last_index) ==
    IF last_index <= bi
    THEN [samples |-> buf, next_index |-> wi, dropped |-> TRUE]
    ELSE LET start_offset == Max(0, last_index - bi)
             end_offset == wi - bi
         IN IF start_offset >= Len(buf)
            THEN [samples |-> <<>>, next_index |-> wi, dropped |-> FALSE]
            ELSE [samples |-> PySlice(buf, start_offset, end_offset),
                  next_index |-> wi, dropped |-> FALSE]

\* DataBuffer.get_since_index: (samples, next_index, dropped)
get_since_index(buf, wi, bi, last_index) ==
    IF last_index < bi
    THEN [samples |-> buf, next_index |-> wi, dropped |-> TRUE]
    ELSE LET start_offset == Max(0, last_index - bi)
             end_offset == wi - bi
         IN IF start_offset >= Len(buf)
            THEN [samples |-> <<>>, next_index |-> wi, dropped |-> FALSE]
            ELSE [samples |-> PySlice(buf, start_offset, end_offset),
                  next_index |-> wi, dropped |-> FALSE]

clear_KeepIndices ==
    /\ buffer_lock = 0
    /\ buffer' = <<>>
    /\ fill_level' = 0
    /\ cleared' = TRUE
    /\ UNCHANGED <<max_size, appended, buffer_lock, write_index, base_index>>

\* DataBuffer.clear
clear ==
    /\ buffer_lock = 0
    /\ buffer' = <<>>
    /\ fill_level' = 0
    /\ write_index' = 0
    /\ base_index' = 0
    /\ cleared' = TRUE
    /\ UNCHANGED <<max_size, appended, buffer_lock>>

\* --------------------------------------------- callers of the DataBuffer
\* The ingestion path appends the next row (at most limit rows are explored).
Ingest(limit) ==
    /\ appended < limit
    /\ append(appended)
    /\ appended' = appended + 1
    /\ last' = [NoCall EXCEPT !.op = "append", !.arg = appended]

\* A visualisation reader asks for the most recent rows.
CallGetRecent ==
    \E count \in 0..MaxCount :
        /\ buffer_lock = 0
        /\ last' = [NoCall EXCEPT !.op = "get_recent", !.arg = count,
                                  !.samples = get_recent(buffer, count)]
        /\ UNCHANGED <<bufVars, rdVars>>

\* Any caller asks for the rows since an index of its choice.
CallGetSince ==
    \E i \in 0..MaxAppends :
        LET r == get_since_index(buffer, write_index, base_index, i)
        IN /\ buffer_lock = 0
           /\ last' = [op |-> "get_since_index", arg |-> i, samples |-> r.samples,
                       next_index |-> r.next_index, dropped |-> r.dropped]
           /\ UNCHANGED <<bufVars, rdVars>>

\* The incremental reader passes back the next_index of its previous call
\* (0 before its first call) and keeps what it is handed.
ReaderPoll ==
    LET r == get_since_index(buffer, write_index, base_index, rd_index)
    IN /\ buffer_lock = 0
       /\ last' = [op |-> "reader", arg |-> rd_index, samples |-> r.samples,
                   next_index |-> r.next_index, dropped |-> r.dropped]
       /\ rd_index' = r.next_index
       /\ rd_got' = rd_got \o r.samples
       /\ rd_lost' = (rd_lost \/ r.dropped)
       /\ UNCHANGED bufVars

CallClear ==
    /\ clear
    /\ last' = [NoCall EXCEPT !.op = "clear"]
    /\ UNCHANGED rdVars

\* ------------------------------------------------------- RecordFileWriter
Sessions == 1..MaxSessions
Paths == 0..MaxClock

\* A RecordFileWriter object.  file_handle: self._file_handle is not None;
\* handle_open: the file object it was given by open() has not been closed.
NoWriter ==
    [created |-> FALSE, filepath |-> 0, buffer_size |-> DefaultBufferSize,
     file_handle |-> FALSE, handle_open |-> FALSE,
     write_buffer |-> <<>>, sample_count |-> 0]

NoFile == [exists |-> FALSE, header |-> FALSE, rows |-> <<>>]

\* RecordFileWriter._format_csv_row: the CSV line of a row.
format_csv_row(sample) == [csv |-> sample]

format_rows(samples) == [k \in 1..Len(samples) |-> format_csv_row(samples[k])]

\* RecordFileWriter.open: mkdir/open may raise before a handle exists
\* ("open_fails"), or the header write may raise on the opened file
\* ("header_fails").  Returns the writer, the file and whether it raised.
writer_open(w, f, outcome) ==
    IF outcome = "open_fails"
    THEN [w |-> w, f |-> f, raised |-> TRUE]
    ELSE [w |-> [w EXCEPT !.file_handle = TRUE, !.handle_open = TRUE],
          f |-> [exists |-> TRUE, header |-> (outcome # "header_fails"), rows |-> <<>>],
          raised |-> (outcome = "header_fails")]

\* RecordFileWriter._flush_internal with a write that succeeds.
flush_internal(w, f) ==
    IF w.write_buffer = <<>> \/ ~w.file_handle
    THEN [w |-> w, f |-> f]
    ELSE [w |-> [w EXCEPT !.write_buffer = <<>>],
          f |-> [f EXCEPT !.rows = f.rows \o w.write_buffer]]

\* RecordFileWriter._flush_internal when writelines raises after the file
\* object has accepted the first buffered row: the write buffer is not
\* cleared ("self._write_buffer.clear()" comes after writelines).
flush_internal_partial(w, f) ==
    [w |-> w, f |-> [f EXCEPT !.rows = Append(f.rows, w.write_buffer[1])]]

flush_due_Above(pending, size) == pending > size

\* append_rows: "if len(self._write_buffer) >= self._buffer_size"
flush_due(pending, size) == pending >= size

\* RecordFileWriter.append_rows, the part under the writer lock.  outcome
\* is what becomes of a due flush: "ok", "flush_fails" (writelines raises
\* with nothing accepted) or "flush_partial".
append_rows(w, f, samples, outcome) ==
    LET w1 == [w EXCEPT !.write_buffer = w.write_buffer \o format_rows(samples),
                        !.sample_count = w.sample_count + Len(samples)]
    IN IF flush_due(Len(w1.write_buffer), w1.buffer_size)
       THEN IF outcome = "ok" \/ ~w1.file_handle
            THEN [w |-> flush_internal(w1, f).w, f |-> flush_internal(w1, f).f,
                  raised |-> FALSE]
            ELSE IF outcome = "flush_partial"
            THEN [w |-> w1, f |-> flush_internal_partial(w1, f).f, raised |-> TRUE]
            ELSE [w |-> w1, f |-> f, raised |-> TRUE]
       ELSE [w |-> w1, f |-> f, raised |-> FALSE]

\* The SessionInfo built by close (the metadata file holds the same values):
\* the name and path come from the file name, the start time is the second
\* of the file name, total_samples is the writer's count.  (end_time,
\* duration_seconds and file_size_bytes are clock readings and the size of the
\* rows counted by total_samples.)
session_info(w) ==
    [session_id |-> w.filepath, start_time |-> w.filepath,
     total_samples |-> w.sample_count, file_path |-> w.filepath]

\* RecordFileWriter.close.  outcome "flush_fails": the final flush raises
\* (only with rows pending), so the file object is not closed and the finally
\* block drops the reference to it; "close_fails": the rows are flushed, then
\* closing the file object or reading the file size raises (the file object
\* is closed all the same); "meta_fails": the metadata write fails, which
\* _write_metadata_file swallows.  m is the metadata file at the path.
writer_close(w, f, m, outcome) ==
    IF ~w.file_handle
    THEN [w |-> w, f |-> f, m |-> m, raised |-> TRUE, total_samples |-> 0,
          meta_written |-> FALSE]
    ELSE IF outcome = "flush_fails" /\ w.write_buffer # <<>>
    THEN [w |-> [w EXCEPT !.file_handle = FALSE], f |-> f, m |-> m,
          raised |-> TRUE, total_samples |-> 0, meta_written |-> FALSE]
    ELSE IF outcome = "close_fails"
    THEN [w |-> [flush_internal(w, f).w EXCEPT !.file_handle = FALSE,
                                             !.handle_open = FALSE],
          f |-> flush_internal(w, f).f, m |-> m,
          raised |-> TRUE, total_samples |-> 0, meta_written |-> FALSE]
    ELSE [w |-> [flush_internal(w, f).w EXCEPT !.file_handle = FALSE,
                                             !.handle_open = FALSE],
          f |-> flush_internal(w, f).f,
          m |-> IF outcome = "meta_fails" THEN m ELSE w.sample_count,
          raised |-> FALSE, total_samples |-> w.sample_count,
          meta_written |-> (outcome # "meta_fails")]

\* -------------------------------------------------- RecordingWorkerThread
NoWorker ==
    [pc |-> "none", last_read_index |-> 0, stop_event |-> FALSE, error |-> FALSE,
     new_samples |-> <<>>, next_index |-> 0, saw_dropped |-> FALSE]

\* Thread.is_alive()
is_alive(t) == t.pc \in {"started", "loop", "poll", "write", "append"}

initial_read_index_Zero(wi) == 0

\* run: "self._last_read_index = self._buffer.current_write_index"
initial_read_index(wi) == wi

lock_after_poll_Held(s) == s

\* DataBuffer.get_since_index: "with self._lock:" has released the buffer
\* lock when the call returns.
lock_after_poll(s) == 0

\* run, first statement of the thread (current_write_index reads the index
\* under the buffer lock and releases it).
WorkerInit(s) ==
    /\ workers[s].pc = "started"
    /\ buffer_lock \in {0, s}
    /\ buffer_lock' = 0
    /\ workers' = [workers EXCEPT ![s].last_read_index = initial_read_index(write_index),
                                  ![s].pc = "loop"]
    /\ UNCHANGED <<writers, files>>

pc_at_loop_top_IgnoreStop(stop) == "poll"

\* run: "while not self._stop_event.is_set()"
pc_at_loop_top(stop) == IF stop THEN "done" ELSE "poll"

WorkerLoop(s) ==
    /\ workers[s].pc = "loop"
    /\ UNCHANGED buffer_lock
    /\ workers' = [workers EXCEPT ![s].pc = pc_at_loop_top(workers[s].stop_event)]
    /\ UNCHANGED <<writers, files>>

pc_after_poll_AbortOnLoss(r) ==
    IF r.dropped THEN "done" ELSE IF r.samples # <<>> THEN "write" ELSE "loop"

\* run, after the poll: "if dropped:" only logs a warning; "if new_samples:"
\* decides between append_rows and the wait at the bottom of the loop.
pc_after_poll(r) == IF r.samples # <<>> THEN "write" ELSE "loop"

\* run: get_since_index under the buffer lock, then "if new_samples"; with
\* nothing new the worker goes through "self._stop_event.wait(0.02)" back to
\* the top of the loop.  (saw_dropped remembers that some poll of the session
\* logged the data-loss warning.)
WorkerPoll(s) ==
    /\ workers[s].pc = "poll"
    /\ buffer_lock \in {0, s}
    /\ buffer_lock' = lock_after_poll(s)
    /\ LET r == get_since_index(buffer, write_index, base_index,
                                workers[s].last_read_index)
       IN workers' = [workers EXCEPT
                         ![s].saw_dropped = (workers[s].saw_dropped \/ r.dropped),
                         ![s].new_samples = IF pc_after_poll(r) = "write"
                                            THEN r.samples ELSE <<>>,
                         ![s].next_index = IF pc_after_poll(r) = "write"
                                           THEN r.next_index ELSE 0,
                         ![s].pc = pc_after_poll(r)]
    /\ UNCHANGED <<writers, files>>

\* append_rows, the check made before the writer lock is taken:
\* "if not self._file_handle: raise"; run records the error and breaks.
WorkerWrite(s) ==
    /\ workers[s].pc = "write"
    /\ UNCHANGED buffer_lock
    /\ workers' = [workers EXCEPT
                      ![s].pc = IF writers[s].file_handle THEN "append" ELSE "done",
                      ![s].error = (workers[s].error \/ ~writers[s].file_handle),
                      ![s].new_samples =
                          IF writers[s].file_handle THEN workers[s].new_samples ELSE <<>>,
                      ![s].next_index =
                          IF writers[s].file_handle THEN workers[s].next_index ELSE 0]
    /\ UNCHANGED <<writers, files>>

\* append_rows under the writer lock, then "self._last_read_index = next_index"
\* and, through "self._stop_event.wait(0.02)", back to the top of the loop.
\* (new_samples and next_index are dead from here on and are blanked.)
WorkerAppend(s) ==
    /\ workers[s].pc = "append"
    /\ UNCHANGED buffer_lock
    /\ \E outcome \in {"ok", "flush_fails", "flush_partial"} :
         LET p == writers[s].filepath
             r == append_rows(writers[s], files[p], workers[s].new_samples, outcome)
         IN /\ (outcome # "ok") => r.raised
            /\ writers' = [writers EXCEPT ![s] = r.w]
            /\ files' = [files EXCEPT ![p] = r.f]
            /\ workers' = [workers EXCEPT
                              ![s].pc = IF r.raised THEN "done" ELSE "loop",
                              ![s].error = (workers[s].error \/ r.raised),
                              ![s].new_samples = <<>>,
                              ![s].next_index = 0,
                              ![s].last_read_index =
                                  IF r.raised THEN workers[s].last_read_index
                                  ELSE workers[s].next_index]

\* One step of the worker thread of session s.
WorkerStepOf(s) ==
    /\ \/ WorkerInit(s)
       \/ WorkerLoop(s)
       \/ WorkerPoll(s)
       \/ WorkerWrite(s)
       \/ WorkerAppend(s)
    /\ UNCHANGED <<bufData, last, rdVars, clock, mgrVars, mgr_pc, meta, sessions,
                   start_wi, stop_wi, mcall, failed_sessions, lossy_sessions>>

WorkerStep == \E s \in Sessions : WorkerStepOf(s)

\* ------------------------------------------------------- RecorderManager
NoMgrCall ==
    [op |-> "none", result |-> "none", session |-> 0, total_samples |-> 0,
     meta_written |-> FALSE, joined |-> FALSE, worker_error |-> FALSE,
     listing |-> <<>>]

\* RecorderManager.__init__, with nothing on disk yet.
RecorderInit ==
    /\ clock = 0
    /\ is_recording = FALSE
    /\ current_session = -1
    /\ file_writer = 0
    /\ worker_thread = 0
    /\ mgr_start_time = -1
    /\ mgr_pc = "idle"
    /\ writers = [s \in Sessions |-> NoWriter]
    /\ workers = [s \in Sessions |-> NoWorker]
    /\ files = [p \in Paths |-> NoFile]
    /\ meta = [p \in Paths |-> -1]
    /\ sessions = 0
    /\ start_wi = -1
    /\ stop_wi = -1
    /\ mcall = NoMgrCall
    /\ failed_sessions = {}
    /\ lossy_sessions = {}

ResetManager_FlagStuck ==
    /\ is_recording' = is_recording
    /\ current_session' = -1
    /\ mgr_start_time' = -1
    /\ worker_thread' = 0
    /\ file_writer' = 0

\* _cleanup_failed_recording, the "finally" block: the manager forgets the
\* session.
ResetManager ==
    /\ is_recording' = FALSE
    /\ current_session' = -1
    /\ mgr_start_time' = -1
    /\ worker_thread' = 0
    /\ file_writer' = 0

start_recording_rejects_Never(rec) == FALSE

\* start_recording: "if self._is_recording: raise RuntimeError(...)"
start_recording_rejects(rec) == rec

stop_recording_rejects_Never(rec) == FALSE

\* stop_recording: "if not self._is_recording: raise RuntimeError(...)"
stop_recording_rejects(rec) == ~rec

\* start_recording, under the manager lock.  (Exploration is bounded to
\* starts made while at most MaxAliveAtStart abandoned workers still run.)  The file name comes from the
\* clock second "now", which never runs backwards; outcome chooses where, if
\* anywhere, the start fails: opening the file, writing the header, starting
\* the thread, or building the status with the worker already running (ran:
\* the new thread has by then read its start index and entered its loop).  On a
\* failure _cleanup_failed_recording stops the worker (if any), closes the
\* writer (errors ignored) and resets the manager before the error propagates;
\* with a running worker the call continues in StartCleanup.
StartRecording ==
    /\ mgr_pc = "idle"
    /\ IF start_recording_rejects(is_recording)
       THEN /\ mcall' = [NoMgrCall EXCEPT !.op = "start",
                                          !.result = "Recording already in progress"]
            /\ UNCHANGED <<clock, mgrVars, mgr_pc, writers, workers, files, meta,
                           sessions, start_wi, stop_wi, failed_sessions, lossy_sessions>>
       ELSE /\ sessions < MaxSessions
            /\ Cardinality({t \in Sessions \ {worker_thread} : is_alive(workers[t])})
                   <= MaxAliveAtStart
            /\ \E outcome \in {"ok", "open_fails", "header_fails", "thread_fails",
                               "status_fails"},
                  cleanup \in {"ok", "meta_fails"},
                  ran \in BOOLEAN,
                  now \in clock..MaxClock :
                 LET s == sessions + 1
                     p == now
                     w0 == [NoWriter EXCEPT !.created = TRUE, !.filepath = p]
                     o == writer_open(w0, files[p], outcome)
                     c == writer_close(o.w, o.f, meta[p], cleanup)
                 IN /\ sessions' = s
                    /\ clock' = now
                    /\ IF outcome = "ok"
                       THEN /\ cleanup = "ok"
                            /\ ~ran
                            /\ writers' = [writers EXCEPT ![s] = o.w]
                            /\ files' = [files EXCEPT ![p] = o.f]
                            /\ workers' = [workers EXCEPT ![s] =
                                              [NoWorker EXCEPT !.pc = "started"]]
                            /\ is_recording' = TRUE
                            /\ current_session' = p
                            /\ mgr_start_time' = now
                            /\ file_writer' = s
                            /\ worker_thread' = s
                            /\ start_wi' = write_index
                            /\ stop_wi' = -1
                            /\ mcall' = [NoMgrCall EXCEPT !.op = "start",
                                                          !.result = "ok", !.session = s]
                            /\ UNCHANGED <<meta, mgr_pc, failed_sessions, lossy_sessions>>
                       ELSE IF outcome = "status_fails"
                       THEN /\ cleanup = "ok"
                            /\ ran => buffer_lock = 0
                            /\ writers' = [writers EXCEPT ![s] = o.w]
                            /\ files' = [files EXCEPT ![p] = o.f]
                            /\ workers' = [workers EXCEPT ![s] =
                                  IF ran
                                  THEN [NoWorker EXCEPT
                                           !.pc = "poll", !.stop_event = TRUE,
                                           !.last_read_index =
                                               initial_read_index(write_index)]
                                  ELSE [NoWorker EXCEPT !.pc = "started",
                                                        !.stop_event = TRUE]]
                            /\ is_recording' = TRUE
                            /\ current_session' = p
                            /\ mgr_start_time' = now
                            /\ file_writer' = s
                            /\ worker_thread' = s
                            /\ mgr_pc' = "cleanup"
                            /\ mcall' = [NoMgrCall EXCEPT !.op = "start",
                                                          !.result = "pending", !.session = s]
                            /\ UNCHANGED <<meta, start_wi, stop_wi, failed_sessions, lossy_sessions>>
                       ELSE /\ (cleanup = "meta_fails") => o.w.file_handle
                            /\ ~ran
                            /\ writers' = [writers EXCEPT ![s] = c.w]
                            /\ files' = [files EXCEPT ![p] = c.f]
                            /\ meta' = [meta EXCEPT ![p] = c.m]
                            /\ workers' = [workers EXCEPT ![s] =
                                  IF outcome = "thread_fails"
                                  THEN [NoWorker EXCEPT !.pc = "failed", !.stop_event = TRUE]
                                  ELSE NoWorker]
                            /\ ResetManager
                            /\ mcall' = [NoMgrCall EXCEPT !.op = "start",
                                                          !.result = "error", !.session = s]
                            /\ failed_sessions' = failed_sessions \cup {s}
                            /\ UNCHANGED <<start_wi, stop_wi, mgr_pc, lossy_sessions>>
    /\ UNCHANGED <<bufVars, last, rdVars>>

\* start_recording after get_status raised with the worker already started:
\* _cleanup_failed_recording has set the stop event and waits in join while
\* it holds the manager lock.  This is the return of join (the worker has
\* finished, or the 5 s timeout expired and it is abandoned): the writer is
\* closed with errors ignored, the manager is reset and the error propagates.
StartCleanup ==
    /\ mgr_pc = "cleanup"
    /\ \E outcome \in {"ok", "flush_fails", "close_fails", "meta_fails"} :
         LET s == file_writer
             p == writers[s].filepath
             c == writer_close(writers[s], files[p], meta[p], outcome)
         IN /\ (outcome \in {"flush_fails", "close_fails"}) => c.raised
            /\ (outcome = "meta_fails") => ~c.raised
            /\ writers' = [writers EXCEPT ![s] = c.w]
            /\ files' = [files EXCEPT ![p] = c.f]
            /\ meta' = [meta EXCEPT ![p] = c.m]
            /\ mcall' = [NoMgrCall EXCEPT
                             !.op = "start", !.result = "error", !.session = s,
                             !.meta_written = c.meta_written,
                             !.joined = ~is_alive(workers[worker_thread])]
    /\ failed_sessions' = failed_sessions \cup {file_writer}
    /\ UNCHANGED lossy_sessions
    /\ ResetManager
    /\ mgr_pc' = "idle"
    /\ UNCHANGED <<bufVars, last, rdVars, clock, workers, sessions, start_wi, stop_wi>>

\* stop_recording up to the join inside RecordingWorkerThread.stop: the guard,
\* then the stop event is set and the caller waits for the worker while it
\* holds the manager lock.  Without a worker and a writer the "no file writer"
\* error is raised and cleaned up at once.
StopBegin ==
    /\ mgr_pc = "idle"
    /\ IF stop_recording_rejects(is_recording)
       THEN /\ mcall' = [NoMgrCall EXCEPT !.op = "stop",
                                          !.result = "No recording in progress"]
            /\ UNCHANGED <<mgrVars, mgr_pc, workers, stop_wi>>
       ELSE IF worker_thread = 0 /\ file_writer = 0
       THEN /\ mcall' = [NoMgrCall EXCEPT !.op = "stop",
                                          !.result = "No file writer available"]
            /\ ResetManager
            /\ UNCHANGED <<mgr_pc, workers, stop_wi>>
       ELSE /\ workers' = IF worker_thread = 0 THEN workers
                          ELSE [workers EXCEPT ![worker_thread].stop_event = TRUE]
            /\ stop_wi' = write_index
            /\ mgr_pc' = "joining"
            /\ UNCHANGED <<mgrVars, mcall>>
    /\ UNCHANGED <<bufVars, last, rdVars, clock, writers, files, meta, sessions, start_wi,
                   failed_sessions, lossy_sessions>>

\* stop_recording from the return of join (the worker has finished, or the
\* 5 s timeout expired and it is abandoned) to the end: close the writer,
\* reset the state, return the SessionInfo; on an error clean up and raise.
StopFinish ==
    /\ mgr_pc = "joining"
    /\ file_writer # 0
    /\ \E outcome \in {"ok", "flush_fails", "close_fails", "meta_fails"} :
         LET s == file_writer
             p == writers[s].filepath
             c == writer_close(writers[s], files[p], meta[p], outcome)
         IN /\ (outcome \in {"flush_fails", "close_fails"}) => c.raised
            /\ (outcome = "meta_fails") => ~c.raised
            /\ writers' = [writers EXCEPT ![s] = c.w]
            /\ files' = [files EXCEPT ![p] = c.f]
            /\ meta' = [meta EXCEPT ![p] = c.m]
            /\ mcall' = [op |-> "stop",
                         result |-> IF c.raised THEN "error" ELSE "ok",
                         session |-> s,
                         total_samples |-> c.total_samples,
                         meta_written |-> c.meta_written,
                         joined |-> (worker_thread # 0 /\ ~is_alive(workers[worker_thread])),
                         worker_error |-> (worker_thread # 0 /\ workers[worker_thread].error),
                         listing |-> <<>>]
            /\ failed_sessions' =
                   IF c.raised \/ (worker_thread # 0 /\ workers[worker_thread].error)
                   THEN failed_sessions \cup {s}
                   ELSE failed_sessions
            /\ lossy_sessions' =
                   IF ~c.raised /\ worker_thread # 0 /\ workers[worker_thread].saw_dropped
                   THEN lossy_sessions \cup {s}
                   ELSE lossy_sessions
    /\ ResetManager
    /\ mgr_pc' = "idle"
    /\ UNCHANGED <<bufVars, last, rdVars, clock, workers, sessions, start_wi, stop_wi>>

\* The paths of a set, latest first.
RECURSIVE newest_first(_)
newest_first(S) ==
    IF S = {} THEN <<>>
    ELSE LET m == CHOOSE x \in S : \A y \in S : y <= x
         IN <<m>> \o newest_first(S \ {m})

\* list_recordings: one SessionInfo for every *.meta.json file found, sorted
\* by start time (the second in the file name), newest first, cut to limit.
list_recordings(limit) ==
    LET found == newest_first({q \in Paths : meta[q] # -1})
    IN PySlice([k \in 1..Len(found) |->
                   [session_id |-> found[k], total_samples |-> meta[found[k]]]],
               0, limit)

\* A caller lists the recordings (no lock is taken).
ListRecordings ==
    /\ mcall' = [NoMgrCall EXCEPT !.op = "list",
                                  !.listing = list_recordings(DefaultListLimit)]
    /\ UNCHANGED <<bufVars, last, rdVars, clock, mgrVars, mgr_pc, writers, workers,
                   files, meta, sessions, start_wi, stop_wi, failed_sessions, lossy_sessions>>

\* ------------------------------------------- line assembly (ble_receiver)
\* Bytes are numbers 0..255; a decoded text is a sequence of code points.
LF == 10
CR == 13

\* delim_map of _parse_line_from_buffer: LF, CR, NUL, RS, US, GS, ETX, EOT.
Delimiters == {10, 13, 0, 30, 31, 29, 3, 4}

\* The bytes the notifications are made of: the delimiters, "a", ",", " ",
\* the two bytes of U+00E9 (0xC3 0xA9) and 0xFF, which no UTF-8 text contains.
Alphabet == Delimiters \cup {97, 44, 32, 195, 169, 255}

\* Fragments of 1 .. n bytes.
Fragments(n) == UNION {[1..k -> Alphabet] : k \in 1..n}

\* bytearray.find over all delimiters, then min by index: the position
\* (1-based) of the first delimiter byte, 0 if there is none.
first_delimiter(buf) ==
    IF \E i \in 1..Len(buf) : buf[i] \in Delimiters
    THEN CHOOSE i \in 1..Len(buf) :
             /\ buf[i] \in Delimiters
             /\ \A j \in 1..(i - 1) : buf[j] \notin Delimiters
    ELSE 0

\* bytes.rstrip(b"\r")
RECURSIVE rstrip_cr(_)
rstrip_cr(line) ==
    IF line # <<>> /\ line[Len(line)] = CR
    THEN rstrip_cr(SubSeq(line, 1, Len(line) - 1))
    ELSE line

\* bytes.decode("utf-8", errors="strict") for one- and two-byte sequences
\* (every other lead byte is rejected, as 0xFF is): a record with ok and the
\* code points.
RECURSIVE utf8_decode(_)
utf8_decode(bytes) ==
    IF bytes = <<>> THEN [ok |-> TRUE, text |-> <<>>]
    ELSE IF bytes[1] < 128
    THEN LET r == utf8_decode(Tail(bytes))
         IN [ok |-> r.ok, text |-> <<bytes[1]>> \o r.text]
    ELSE IF /\ bytes[1] >= 194 /\ bytes[1] <= 223
            /\ Len(bytes) >= 2 /\ bytes[2] >= 128 /\ bytes[2] <= 191
    THEN LET r == utf8_decode(Tail(Tail(bytes)))
         IN [ok |-> r.ok,
             text |-> <<(bytes[1] - 192) * 64 + (bytes[2] - 128)>> \o r.text]
    ELSE [ok |-> FALSE, text |-> <<>>]

\* str.isspace() of a code point below U+0100.
is_space(cp) == cp \in {9, 10, 11, 12, 13, 28, 29, 30, 31, 32, 133, 160}

\* text.strip() == "" or text.replace(",", "").strip() == ""
is_noise(text) == \A i \in 1..Len(text) : is_space(text[i]) \/ text[i] = 44

\* _parse_line_from_buffer: the buffer and the dump flag it leaves, and the
\* text it returns (some = FALSE stands for None).
parse_line_from_buffer(buf, dumped) ==
    LET idx == first_delimiter(buf)
    IN IF idx = 0
       THEN [buffer |-> IF Len(buf) > SoftLimit
                        THEN SubSeq(buf, Len(buf) - SoftLimit + 1, Len(buf))
                        ELSE buf,
             dumped |-> (dumped \/ Len(buf) >= DumpThreshold),
             some |-> FALSE, text |-> <<>>]
       ELSE LET consume == IF buf[idx] = CR /\ idx < Len(buf) /\ buf[idx + 1] = LF
                           THEN 2 ELSE 1
                line == rstrip_cr(SubSeq(buf, 1, idx - 1))
                rest == SubSeq(buf, idx + consume, Len(buf))
                d == utf8_decode(line)
            IN IF ~d.ok \/ is_noise(d.text)
               THEN [buffer |-> rest, dumped |-> dumped, some |-> FALSE, text |-> <<>>]
               ELSE [buffer |-> rest, dumped |-> dumped, some |-> TRUE, text |-> d.text]

\* handle, the loop: "while True: text = _parse_line_from_buffer(...);
\* if text is None: break; queue.put_nowait(text)".
RECURSIVE parse_loop(_, _, _)
parse_loop(buf, dumped, out) ==
    LET r == parse_line_from_buffer(buf, dumped)
    IN IF ~r.some
       THEN [buffer |-> r.buffer, dumped |-> r.dumped, lines |-> out]
       ELSE parse_loop(r.buffer, r.dumped, Append(out, r.text))

\* handle(data): extend the buffer, then queue every line the loop extracts.
handle(buf, dumped, data) == parse_loop(buf \o data, dumped, <<>>)

FrameInit ==
    /\ fa_buffer = <<>>
    /\ fa_dumped = FALSE
    /\ fa_fed = <<>>
    /\ fa_out = <<>>

\* The transport delivers one notification with the next fragment (the
\* stream is cut off after limit bytes).
NotifyUpTo(limit) ==
    /\ Len(fa_fed) < limit
    /\ \E data \in Fragments(limit - Len(fa_fed)) :
         LET r == handle(fa_buffer, fa_dumped, data)
         IN /\ fa_buffer' = r.buffer
            /\ fa_dumped' = r.dumped
            /\ fa_out' = fa_out \o r.lines
            /\ fa_fed' = fa_fed \o data
    /\ UNCHANGED <<bufVars, last, rdVars, recVars, appVars>>

Notify == NotifyUpTo(MaxStream)

\* ------------------------------------ collect_data_with_retry (app.py)
RECURSIVE Pow(_, _)
Pow(b, e) == IF e = 0 THEN 1 ELSE b * Pow(b, e - 1)

\* retry_delay * (backoff_multiplier ** (retry_count - 1)), in milliseconds
\* (3.0 s and 1.5 = 3/2; exact for the counts 1 .. 4 that reach it).
current_delay(count) ==
    (RetryDelayMs * Pow(BackoffNum, count - 1)) \div Pow(BackoffDen, count - 1)

loop_continues_Inclusive(stop, count) == ~stop /\ count <= MaxRetries

\* "while not self._stop_event.is_set() and retry_count < max_retries"
loop_continues(stop, count) == ~stop /\ count < MaxRetries

SupervisorInit ==
    /\ sup_pc = "loop"
    /\ retry_count = 0
    /\ data_count = 0
    /\ app_stop_event = FALSE
    /\ collection_paused = FALSE
    /\ src_connected = FALSE
    /\ sup_delay = 0
    /\ sup_result = "running"
    /\ sup_attempts = 0
    /\ sup_rows = 0
    /\ sup_streak = 0

\* The while test; when it passes, the try body up to the async for:
\* data_source.start() and data_count = 0.
SupLoop ==
    /\ sup_pc = "loop"
    /\ IF loop_continues(app_stop_event, retry_count)
       THEN /\ sup_pc' = "stream"
            /\ src_connected' = TRUE
            /\ data_count' = 0
            /\ sup_attempts' = sup_attempts + 1
            /\ UNCHANGED sup_result
       ELSE /\ sup_pc' = "done"
            /\ sup_result' = IF sup_result = "running" THEN "stopped" ELSE sup_result
            /\ UNCHANGED <<src_connected, data_count, sup_attempts>>
    /\ UNCHANGED <<retry_count, app_stop_event, collection_paused, sup_delay,
                   sup_rows, sup_streak>>
    /\ UNCHANGED <<bufVars, last>>

\* The data stream yields a row: one pass through the body of the async for
\* (stop check, pause check, buffer.append); a break runs the finally block.
SupRow ==
    /\ sup_pc = "stream"
    /\ sup_rows < MaxDelivered
    /\ sup_rows' = sup_rows + 1
    /\ sup_streak' = 0
    /\ IF app_stop_event
       THEN /\ sup_pc' = "done"
            /\ sup_result' = "stopped"
            /\ src_connected' = FALSE
            /\ UNCHANGED <<data_count, bufVars, last>>
       ELSE IF collection_paused
       THEN UNCHANGED <<sup_pc, sup_result, src_connected, data_count, bufVars, last>>
       ELSE /\ Ingest(MaxDelivered)
            /\ data_count' = data_count + 1
            /\ UNCHANGED <<sup_pc, sup_result, src_connected>>
    /\ UNCHANGED <<retry_count, app_stop_event, collection_paused, sup_delay,
                   sup_attempts>>

\* The data stream ends without an exception: "break" out of the while loop,
\* then the finally block.
SupStreamEnd ==
    /\ sup_pc = "stream"
    /\ sup_pc' = "done"
    /\ sup_result' = IF app_stop_event THEN "stopped" ELSE "ended"
    /\ src_connected' = FALSE
    /\ UNCHANGED <<retry_count, data_count, app_stop_event, collection_paused,
                   sup_delay, sup_attempts, sup_rows, sup_streak>>
    /\ UNCHANGED <<bufVars, last>>

\* The attempt raises (scan, connect or stream): "except Exception", up to the
\* backoff sleep or, on the last retry, through the finally block.
SupFail ==
    /\ sup_pc = "stream"
    /\ retry_count' = retry_count + 1
    /\ sup_streak' = sup_streak + 1
    /\ IF retry_count' < MaxRetries
       THEN /\ sup_delay' = current_delay(retry_count')
            /\ sup_pc' = "sleep"
            /\ UNCHANGED <<sup_result, src_connected>>
       ELSE /\ sup_result' = "gave_up"
            /\ sup_pc' = "loop"
            /\ src_connected' = FALSE
            /\ UNCHANGED sup_delay
    /\ UNCHANGED <<data_count, app_stop_event, collection_paused, sup_attempts,
                   sup_rows>>
    /\ UNCHANGED <<bufVars, last>>

\* asyncio.sleep(current_delay) returns; the finally block, back to the while.
SupWake ==
    /\ sup_pc = "sleep"
    /\ sup_pc' = "loop"
    /\ src_connected' = FALSE
    /\ UNCHANGED <<retry_count, data_count, app_stop_event, collection_paused,
                   sup_delay, sup_result, sup_attempts, sup_rows, sup_streak>>
    /\ UNCHANGED <<bufVars, last>>

\* asyncio.CancelledError in the stream or in the backoff sleep: break, finally.
SupCancel ==
    /\ sup_pc \in {"stream", "sleep"}
    /\ sup_pc' = "done"
    /\ sup_result' = "cancelled"
    /\ src_connected' = FALSE
    /\ UNCHANGED <<retry_count, data_count, app_stop_event, collection_paused,
                   sup_delay, sup_attempts, sup_rows, sup_streak>>
    /\ UNCHANGED <<bufVars, last>>

\* OscilloscopeApp.stop_data_collection: sets the stop event (the join and the
\* loop.close() that follow change nothing the retry loop reads).
StopDataCollection ==
    /\ ~app_stop_event
    /\ app_stop_event' = TRUE
    /\ UNCHANGED <<sup_pc, retry_count, data_count, collection_paused, src_connected,
                   sup_delay, sup_result, sup_attempts, sup_rows, sup_streak>>
    /\ UNCHANGED <<bufVars, last>>

\* The pause and the start/resume callbacks of the user interface.
TogglePause ==
    /\ collection_paused' = ~collection_paused
    /\ UNCHANGED <<sup_pc, retry_count, data_count, app_stop_event, src_connected,
                   sup_delay, sup_result, sup_attempts, sup_rows, sup_streak>>
    /\ UNCHANGED <<bufVars, last>>

\* --------------------------------------------- stream_rows (ble_receiver)
\* A queue item: a decoded line, or the None sentinel.
Sentinel == [none |-> TRUE, text |-> <<>>]
QueuedLine(t) == [none |-> FALSE, text |-> t]

\* str.split(",")
RECURSIVE split_commas(_)
split_commas(text) ==
    IF \A i \in 1..Len(text) : text[i] # 44
    THEN <<text>>
    ELSE LET i == CHOOSE k \in 1..Len(text) :
                      /\ text[k] = 44
                      /\ \A j \in 1..(k - 1) : text[j] # 44
         IN <<SubSeq(text, 1, i - 1)>> \o split_commas(SubSeq(text, i + 1, Len(text)))

\* str.strip()
RECURSIVE strip(_)
strip(t) ==
    IF t = <<>> THEN t
    ELSE IF is_space(t[1]) THEN strip(Tail(t))
    ELSE IF is_space(t[Len(t)]) THEN strip(SubSeq(t, 1, Len(t) - 1))
    ELSE t

\* int(p) and float(p) succeed: for the fields the model's lines are made of
\* (decimal digits, spaces, letters), exactly when p is a run of digits.
is_number(p) == p # <<>> /\ \A i \in 1..Len(p) : p[i] \in 48..57

\* ImuRow.parse_csv returns a row (does not raise ValueError).
parse_csv_ok(line) ==
    LET parts == split_commas(line)
    IN /\ Len(parts) = 9
       /\ \A k \in 1..Len(parts) : is_number(strip(parts[k]))

\* The notification payloads of the session model: a whole record
\* "1,1,1,1,1,1,1,1,1\n", its first 8 bytes, its last 9 bytes with the
\* newline, a complete line of two fields, and the record
\* "2,1,1,1,1,1,1,1,1\n".
GoodLine == [k \in 1..17 |-> IF k % 2 = 1 THEN 49 ELSE 44]
OtherGoodLine == [GoodLine EXCEPT ![1] = 50]
SessionFragments ==
    { GoodLine \o <<LF>>,
      OtherGoodLine \o <<LF>>,
      SubSeq(GoodLine, 1, 8),
      SubSeq(GoodLine, 9, 17) \o <<LF>>,
      <<49, 44, 49, LF>> }

SessionInit ==
    /\ ss_pc = "init"
    /\ ss_idle_timeout = FALSE
    /\ ss_connected = FALSE
    /\ ss_disconnected = FALSE
    /\ ss_notifying = FALSE
    /\ ss_queue = <<>>
    /\ ss_yielded = <<>>
    /\ ss_result = ""
    /\ ss_unsubs = 0
    /\ ss_notes = 0
    /\ ss_last = ""

\* stream_rows up to the first queue wait: resolve the address, connect,
\* create the queue and the handler, start_notify.
SessOpen ==
    /\ ss_pc = "init"
    /\ \E outcome \in {"ok", "not_found", "connect_fails", "subscribe_fails"} :
         /\ ss_pc' = IF outcome = "ok" THEN "waiting" ELSE "done"
         /\ ss_connected' = (outcome = "ok")
         /\ ss_notifying' = (outcome = "ok")
         /\ ss_result' = CASE outcome = "ok" -> ""
                           [] outcome = "not_found" -> "DeviceNotFound"
                           [] outcome = "connect_fails" -> "ConnectionFailed"
                           [] outcome = "subscribe_fails" -> "SubscribeFailed"
    /\ UNCHANGED <<ss_idle_timeout, ss_disconnected, ss_queue, ss_yielded,
                   ss_unsubs, ss_notes, ss_last>>
    /\ UNCHANGED faVars

\* on_disconnect, invoked by the transport when the link is lost:
\* "disconnected.set()" and nothing else.
OnDisconnect ==
    /\ ss_connected
    /\ ss_connected' = FALSE
    /\ ss_disconnected' = TRUE
    /\ UNCHANGED <<ss_pc, ss_idle_timeout, ss_notifying, ss_queue, ss_yielded,
                   ss_result, ss_unsubs, ss_notes, ss_last>>
    /\ UNCHANGED faVars

\* The transport delivers a notification to handle(data): extend the buffer,
\* queue every line extracted, then "if disconnected.is_set(): wake_consumer()".
SessNotify ==
    /\ ss_notifying
    /\ ss_notes < MaxNotifications
    /\ \E data \in SessionFragments :
         LET r == handle(fa_buffer, fa_dumped, data)
             queued == [k \in 1..Len(r.lines) |-> QueuedLine(r.lines[k])]
         IN /\ fa_buffer' = r.buffer
            /\ fa_dumped' = r.dumped
            /\ fa_out' = fa_out \o r.lines
            /\ fa_fed' = fa_fed \o data
            /\ ss_queue' = IF ss_disconnected
                           THEN (ss_queue \o queued) \o <<Sentinel>>
                           ELSE ss_queue \o queued
    /\ ss_notes' = ss_notes + 1
    /\ UNCHANGED <<ss_pc, ss_idle_timeout, ss_connected, ss_disconnected,
                   ss_notifying, ss_yielded, ss_result, ss_unsubs, ss_last>>

\* The session ends inside the try block of stream_rows: the finally block
\* calls stop_notify, then the BleakClient context manager disconnects.
SessEnd(result) ==
    /\ ss_pc' = "done"
    /\ ss_result' = result
    /\ ss_notifying' = FALSE
    /\ ss_unsubs' = ss_unsubs + 1
    /\ ss_connected' = FALSE

after_parse_failure_Raise(pc) == "done"

\* _process_message_queue: "except Exception as ex:" logs the line and
\* continues with the next queue.get().
after_parse_failure(pc) == pc

\* _process_message_queue: queue.get() returns an item; the sentinel raises
\* "BLE connection lost.", an empty line and a line that does not parse are
\* skipped, a row is yielded.
SessGet ==
    /\ ss_pc = "waiting"
    /\ ss_queue # <<>>
    /\ ss_queue' = Tail(ss_queue)
    /\ LET line == Head(ss_queue)
       IN IF line.none
          THEN /\ SessEnd("ConnectionLost")
               /\ ss_last' = "sentinel"
               /\ UNCHANGED ss_yielded
          ELSE IF line.text = <<>>
          THEN /\ ss_last' = "empty"
               /\ UNCHANGED <<ss_pc, ss_result, ss_notifying, ss_unsubs,
                              ss_connected, ss_yielded>>
          ELSE IF parse_csv_ok(line.text)
          THEN /\ ss_pc' = "yielded"
               /\ ss_yielded' = Append(ss_yielded, line.text)
               /\ ss_last' = "row"
               /\ UNCHANGED <<ss_result, ss_notifying, ss_unsubs, ss_connected>>
          ELSE IF after_parse_failure(ss_pc) = "done"
          THEN /\ SessEnd("ValueError")
               /\ ss_last' = "parse_failed"
               /\ UNCHANGED ss_yielded
          ELSE /\ ss_last' = "parse_failed"
               /\ ss_pc' = after_parse_failure(ss_pc)
               /\ UNCHANGED <<ss_result, ss_notifying, ss_unsubs,
                              ss_connected, ss_yielded>>
    /\ UNCHANGED <<ss_idle_timeout, ss_disconnected, ss_notes>>
    /\ UNCHANGED faVars

timeout_ends_session_Always(disc, conn) == TRUE

\* _process_message_queue, "except asyncio.TimeoutError":
\* "if disconnected.is_set() or not client.is_connected: raise".
timeout_ends_session(disc, conn) == disc \/ ~conn

\* _process_message_queue: asyncio.wait_for times out on an empty queue.
SessTimeout ==
    /\ ss_pc = "waiting"
    /\ ss_idle_timeout
    /\ ss_queue = <<>>
    /\ IF timeout_ends_session(ss_disconnected, ss_connected)
       THEN /\ SessEnd("ConnectionLost")
            /\ ss_last' = "timeout_lost"
       ELSE /\ ss_last' = "timeout"
            /\ UNCHANGED <<ss_pc, ss_result, ss_notifying, ss_unsubs, ss_connected>>
    /\ UNCHANGED <<ss_idle_timeout, ss_disconnected, ss_queue, ss_yielded, ss_notes>>
    /\ UNCHANGED faVars

\* The consumer of the generator asks for the next row.
SessResume ==
    /\ ss_pc = "yielded"
    /\ ss_pc' = "waiting"
    /\ UNCHANGED <<ss_idle_timeout, ss_connected, ss_disconnected, ss_notifying,
                   ss_queue, ss_yielded, ss_result, ss_unsubs, ss_notes, ss_last>>
    /\ UNCHANGED faVars

\* The consumer leaves its "async for" with the generator suspended at its
\* yield (the break of get_data_stream, the break of the collection loop);
\* nothing closes the generator, so its finally block has not run.
SessBreak ==
    /\ ss_pc = "yielded"
    /\ ss_pc' = "abandoned"
    /\ UNCHANGED <<ss_idle_timeout, ss_connected, ss_disconnected, ss_notifying,
                   ss_queue, ss_yielded, ss_result, ss_unsubs, ss_notes, ss_last>>
    /\ UNCHANGED faVars

\* The abandoned generator is finalized (the event loop, if it still runs, is
\* handed aclose() when the generator is collected): GeneratorExit at the
\* yield, then the finally block.
SessClose ==
    /\ ss_pc = "abandoned"
    /\ SessEnd("closed")
    /\ UNCHANGED <<ss_idle_timeout, ss_disconnected, ss_queue, ss_yielded,
                   ss_notes, ss_last>>
    /\ UNCHANGED faVars

\* The task waiting in queue.get() is cancelled (asyncio.CancelledError).
SessCancel ==
    /\ ss_pc = "waiting"
    /\ SessEnd("cancelled")
    /\ UNCHANGED <<ss_idle_timeout, ss_disconnected, ss_queue, ss_yielded,
                   ss_notes, ss_last>>
    /\ UNCHANGED faVars

\* ------------------------------------------- parse / format round trip
\* A float is held exactly, as a whole number of units of 10^-ValueDigits
\* (one decimal more than the widest format below); millis is a whole number.
ValueDigits == 7
Unit == Pow(10, ValueDigits)

\* The decimals of the format specs of _format_csv_row, field by field:
\* {millis}, six times :.6f, {tempC:.2f}, {audioRMS:.3f}.
FormatDecimals == <<0, 6, 6, 6, 6, 6, 6, 2, 3>>

\* The decimal digits of a natural number, as text.
RECURSIVE to_digits(_)
to_digits(n) == IF n < 10 THEN <<48 + n>> ELSE Append(to_digits(n \div 10), 48 + (n % 10))

\* The natural number written by a run of decimal digits (0 for the empty run).
RECURSIVE digits_value(_)
digits_value(t) ==
    IF t = <<>> THEN 0
    ELSE 10 * digits_value(SubSeq(t, 1, Len(t) - 1)) + (t[Len(t)] - 48)

RECURSIVE zero_pad(_, _)
zero_pad(t, width) == IF Len(t) >= width THEN t ELSE zero_pad(<<48>> \o t, width)

is_digits(t) == \A i \in 1..Len(t) : t[i] \in 48..57

\* Position of the first "." in t, 0 if there is none.
dot_position(t) ==
    IF \A i \in 1..Len(t) : t[i] # 46 THEN 0
    ELSE CHOOSE k \in 1..Len(t) : t[k] = 46 /\ \A j \in 1..(k - 1) : t[j] # 46

\* int(p) succeeds, for unsigned text: a non-empty run of digits.
int_ok(p) == p # <<>> /\ is_digits(p)

\* float(p) succeeds, for unsigned text without exponent: digits with at most
\* one ".", at least one digit (and no more decimals than the model holds).
float_ok(p) ==
    LET k == dot_position(p)
        ip == IF k = 0 THEN p ELSE SubSeq(p, 1, k - 1)
        fp == IF k = 0 THEN <<>> ELSE SubSeq(p, k + 1, Len(p))
    IN /\ is_digits(ip)
       /\ is_digits(fp)
       /\ Len(ip) + Len(fp) > 0
       /\ Len(fp) <= ValueDigits

\* float(p), in units of 10^-ValueDigits.
float_value(p) ==
    LET k == dot_position(p)
        ip == IF k = 0 THEN p ELSE SubSeq(p, 1, k - 1)
        fp == IF k = 0 THEN <<>> ELSE SubSeq(p, k + 1, Len(p))
    IN digits_value(ip) * Unit + digits_value(fp) * Pow(10, ValueDigits - Len(fp))

\* ImuRow.parse_csv does not raise: nine fields after split(","), the first
\* accepted by int, the others by float, each after strip().
parse_csv_valid(line) ==
    LET parts == split_commas(line)
    IN /\ Len(parts) = 9
       /\ int_ok(strip(parts[1]))
       /\ \A k \in 2..9 : float_ok(strip(parts[k]))

\* ImuRow.parse_csv: the row, as the tuple of its nine field values.
parse_csv(line) ==
    LET parts == split_commas(line)
    IN [k \in 1..9 |-> IF k = 1 THEN digits_value(strip(parts[1]))
                                ELSE float_value(strip(parts[k]))]

\* format(v, ".<d>f"): v rounded to d decimals (to nearest; a tie, which the
\* lines of the model do not produce, to even), integer part, ".", d digits.
format_fixed(v, d) ==
    LET q == Pow(10, ValueDigits - d)
        lo == v \div q
        rem == v % q
        rounded == IF 2 * rem > q \/ (2 * rem = q /\ lo % 2 = 1) THEN lo + 1 ELSE lo
    IN (to_digits(rounded \div Pow(10, d)) \o <<46>>)
           \o zero_pad(to_digits(rounded % Pow(10, d)), d)

\* RecordFileWriter._format_csv_row as text: the f-string with its commas and
\* its final newline.
RECURSIVE join_fields(_, _)
join_fields(row, k) ==
    LET field == IF k = 1 THEN to_digits(row[1]) ELSE format_fixed(row[k], FormatDecimals[k])
    IN IF k = Len(row) THEN field \o <<LF>>
       ELSE (field \o <<44>>) \o join_fields(row, k + 1)

format_csv_text(row) == join_fields(row, 1)

\* The texts of the fields of the model's lines: millis "0" and "12"; for
\* ax, tempC and audioRMS "0", " 1.5", "25.123" and "0.1234567"; the other
\* fields are "0".
MillisTexts == {<<48>>, <<49, 50>>}
FloatTexts ==
    { <<48>>,
      <<32, 49, 46, 53>>,
      <<50, 53, 46, 49, 50, 51>>,
      <<48, 46, 49, 50, 51, 52, 53, 54, 55>> }

RECURSIVE join_texts(_)
join_texts(parts) ==
    IF Len(parts) = 1 THEN parts[1]
    ELSE (parts[1] \o <<44>>) \o join_texts(Tail(parts))

RoundTripLines ==
    { join_texts(<<m, ax, <<48>>, <<48>>, <<48>>, <<48>>, <<48>>, t, a>>) :
          m \in MillisTexts, ax \in FloatTexts, t \in FloatTexts, a \in FloatTexts }

\* No line has been taken yet.
RoundTripInit ==
    /\ rt_pc = "line"
    /\ rt_line = <<>>
    /\ rt_row = <<>>
    /\ rt_csv = <<>>
    /\ rt_back = <<>>

\* The line reaches the consumer loop: ImuRow.parse_csv (a line that does not
\* parse is skipped).
RtParse ==
    /\ rt_pc = "line"
    /\ IF parse_csv_valid(rt_line)
       THEN /\ rt_row' = parse_csv(rt_line)
            /\ rt_pc' = "parsed"
       ELSE /\ rt_pc' = "skipped"
            /\ UNCHANGED rt_row
    /\ UNCHANGED <<rt_line, rt_csv, rt_back>>

\* The recorder formats the row for its file.
RtFormat ==
    /\ rt_pc = "parsed"
    /\ rt_csv' = format_csv_text(rt_row)
    /\ rt_pc' = "formatted"
    /\ UNCHANGED <<rt_line, rt_row, rt_back>>

\* The row of the file is parsed again.
RtReparse ==
    /\ rt_pc = "formatted"
    /\ parse_csv_valid(rt_csv)
    /\ rt_back' = parse_csv(rt_csv)
    /\ rt_pc' = "reparsed"
    /\ UNCHANGED <<rt_line, rt_row, rt_csv>>

\* ------------------------------------------------- device discovery
\* DEVICE_NAME and NUS_SERVICE, the defaults of find_device; the service id
\* as text, "6e400001-b5a3-f393-e0a9-e50e24dcca9e".
DEVICE_NAME == "XIAO Sense IMU"
NUS_SERVICE ==
    <<54, 101, 52, 48, 48, 48, 48, 49, 45, 98, 53, 97, 51, 45, 102, 51, 57, 51, 45,
      101, 48, 97, 57, 45, 101, 53, 48, 101, 50, 52, 100, 99, 99, 97, 57, 101>>

\* The same service id as a scanner may report it, in capitals, and another
\* service id ("180f").
NUS_SERVICE_UPPER ==
    <<54, 69, 52, 48, 48, 48, 48, 49, 45, 66, 53, 65, 51, 45, 70, 51, 57, 51, 45,
      69, 48, 65, 57, 45, 69, 53, 48, 69, 50, 52, 68, 67, 67, 65, 57, 69>>
OTHER_SERVICE == <<49, 56, 48, 102>>

\* dev.name of a device that advertises no name (None).
NoName == "None"

\* str.lower(), for ASCII text.
lower(t) == [i \in 1..Len(t) |-> IF t[i] \in 65..90 THEN t[i] + 32 ELSE t[i]]

\* _match_device: the name equals device_name, or one of the advertised
\* service ids equals service_uuid when both are put in lower case.
match_device(dev, device_name, service_uuid) ==
    \/ dev.name = device_name
    \/ \E k \in 1..Len(dev.service_uuids) :
           lower(dev.service_uuids[k]) = lower(service_uuid)

\* find_device: the first device of the scan, in the order of
\* devices_adv.values(), that _match_device accepts; 0 for None.
find_device(results, device_name, service_uuid) ==
    IF \E k \in 1..Len(results) : match_device(results[k], device_name, service_uuid)
    THEN CHOOSE k \in 1..Len(results) :
             /\ match_device(results[k], device_name, service_uuid)
             /\ \A j \in 1..(k - 1) : ~match_device(results[j], device_name, service_uuid)
    ELSE 0

\* The devices a scan may report.
ScanDevices ==
    [name : {DEVICE_NAME, "Other", NoName},
     service_uuids : {<<>>, <<NUS_SERVICE>>, <<NUS_SERVICE_UPPER>>, <<OTHER_SERVICE>>}]

RECURSIVE ScanLists(_)
ScanLists(n) ==
    IF n = 0 THEN {<<>>}
    ELSE ScanLists(n - 1) \cup
         {Append(l, d) : l \in {x \in ScanLists(n - 1) : Len(x) = n - 1}, d \in ScanDevices}

\* find_device with its default arguments, after the scan has returned.
FindDevice ==
    /\ scan_pc = "scanned"
    /\ scan_found' = find_device(scan_results, DEVICE_NAME, NUS_SERVICE)
    /\ scan_pc' = "returned"
    /\ UNCHANGED scan_results

\* No scan has been made yet.
ScanInit ==
    /\ scan_pc = "scanned"
    /\ scan_results = <<>>
    /\ scan_found = 0

\* ------------------------- start/stop_data_collection (oscilloscope/app.py)
Callers == 1..MaxCallers
DataThreads == 1..MaxThreads

\* Thread.is_alive() of a data-collection thread object.
thread_alive(t) == dc_status[t] = "alive"

\* threading.Thread(...): the next thread object, 0 when MaxThreads exist.
new_thread ==
    IF \E t \in DataThreads : dc_status[t] = "none"
    THEN CHOOSE t \in DataThreads :
             dc_status[t] = "none" /\ \A u \in 1..(t - 1) : dc_status[u] # "none"
    ELSE 0

CollectionInit ==
    /\ data_thread = 0
    /\ dc_status = [t \in DataThreads |-> "none"]
    /\ dc_pc = [c \in Callers |-> "idle"]

dcSupUnchanged ==
    UNCHANGED <<sup_pc, retry_count, data_count, collection_paused, src_connected,
                sup_delay, sup_result, sup_attempts, sup_rows, sup_streak>>

\* start_data_collection: "if self._data_thread is None or not
\* self._data_thread.is_alive()"; no lock is held.
DcStartCheck(c) ==
    /\ dc_pc[c] = "idle"
    /\ new_thread # 0
    /\ dc_pc' = [dc_pc EXCEPT ![c] =
                    IF data_thread = 0 \/ ~thread_alive(data_thread)
                    THEN "clear" ELSE "idle"]
    /\ UNCHANGED <<data_thread, dc_status, app_stop_event>>

\* start_data_collection: "self._stop_event.clear()"
DcStartClear(c) ==
    /\ dc_pc[c] = "clear"
    /\ app_stop_event' = FALSE
    /\ dc_pc' = [dc_pc EXCEPT ![c] = "create"]
    /\ UNCHANGED <<data_thread, dc_status>>

\* start_data_collection: "self._data_thread = threading.Thread(...)"
DcStartCreate(c) ==
    /\ dc_pc[c] = "create"
    /\ new_thread # 0
    /\ data_thread' = new_thread
    /\ dc_status' = [dc_status EXCEPT ![new_thread] = "created"]
    /\ dc_pc' = [dc_pc EXCEPT ![c] = "start"]
    /\ UNCHANGED app_stop_event

\* start_data_collection: "self._data_thread.start()", on whichever thread
\* object the attribute refers to now; starting a thread a second time raises
\* RuntimeError in the caller.
DcStartStart(c) ==
    /\ dc_pc[c] = "start"
    /\ dc_status' = IF dc_status[data_thread] = "created"
                    THEN [dc_status EXCEPT ![data_thread] = "alive"]
                    ELSE dc_status
    /\ dc_pc' = [dc_pc EXCEPT ![c] = "idle"]
    /\ UNCHANGED <<data_thread, app_stop_event>>

\* stop_data_collection: "self._stop_event.set()", then the join if the
\* thread is alive.
DcStopSet(c) ==
    /\ dc_pc[c] = "idle"
    /\ app_stop_event' = TRUE
    /\ dc_pc' = [dc_pc EXCEPT ![c] =
                    IF data_thread # 0 /\ thread_alive(data_thread)
                    THEN "join" ELSE "idle"]
    /\ UNCHANGED <<data_thread, dc_status>>

\* stop_data_collection: join(timeout=5.0) returns, the thread finished or
\* not; the event loop is closed.
DcStopJoined(c) ==
    /\ dc_pc[c] = "join"
    /\ dc_pc' = [dc_pc EXCEPT ![c] = "idle"]
    /\ UNCHANGED <<data_thread, dc_status, app_stop_event>>

\* _data_collection_worker returns (collect_data_with_retry saw the stop
\* event, gave up, or the stream ended): the thread is no longer alive.
DataThreadExit(t) ==
    /\ dc_status[t] = "alive"
    /\ dc_status' = [dc_status EXCEPT ![t] = "dead"]
    /\ UNCHANGED <<data_thread, dc_pc, app_stop_event>>

\* --------------------- the locks of DataBuffer, RecordFileWriter, RecorderManager
\* Four threads: the ingestion path (DataBuffer.append), the recording worker
\* (RecordingWorkerThread.run), a status reader (get_recent, get_status) and a
\* caller of start_recording / stop_recording.
Locks == {"buffer", "writer", "manager"}
LockThreads == {"ingest", "worker", "reader", "caller"}

reentrant_None(l) == FALSE

\* DataBuffer._lock and RecorderManager._lock are threading.RLock(),
\* RecordFileWriter._lock is threading.Lock().
reentrant(l) == l \in {"buffer", "manager"}

\* "with self._lock:" can be entered.
can_acquire(t, l) == lk_owner[l] = "free" \/ (reentrant(l) /\ lk_owner[l] = t)

own_acq(t, l) == [lk_owner EXCEPT ![l] = t]
cnt_acq(l) == [lk_count EXCEPT ![l] = @ + 1]

\* Leaving a "with self._lock:" block, by return or by exception.
own_rel(t, l) == [lk_owner EXCEPT ![l] = IF lk_count[l] = 1 THEN "free" ELSE t]
cnt_rel(l) == [lk_count EXCEPT ![l] = @ - 1]

at(t, p) == [lk_pc EXCEPT ![t] = p]

LkSet(owner, count, pcs, rec, hnd, stop) ==
    /\ lk_owner' = owner
    /\ lk_count' = count
    /\ lk_pc' = pcs
    /\ lk_recording' = rec
    /\ lk_handle' = hnd
    /\ lk_stop' = stop

LkGoto(t, p) == LkSet(lk_owner, lk_count, at(t, p), lk_recording, lk_handle, lk_stop)

LkEnter(t, l, p) ==
    /\ can_acquire(t, l)
    /\ LkSet(own_acq(t, l), cnt_acq(l), at(t, p), lk_recording, lk_handle, lk_stop)

LkLeave(t, l, p) ==
    LkSet(own_rel(t, l), cnt_rel(l), at(t, p), lk_recording, lk_handle, lk_stop)

\* The lock a thread needs to go on from where it is, "none" if it needs none.
wanted(p) ==
    IF p \in {"append_want", "recent_want", "w_init_want", "w_poll_want"}
    THEN "buffer"
    ELSE IF p \in {"status_want_w", "w_app_want", "start_status_want_w",
                   "close_want", "cleanup_close_want"}
    THEN "writer"
    ELSE IF p \in {"status_want_m", "start_want_m", "start_status_want_m",
                   "stop_want_m"}
    THEN "manager"
    ELSE "none"

LocksInit ==
    /\ lk_owner = [l \in Locks |-> "free"]
    /\ lk_count = [l \in Locks |-> 0]
    /\ lk_pc = [t \in LockThreads |-> IF t = "worker" THEN "none" ELSE "idle"]
    /\ lk_recording = FALSE
    /\ lk_handle = FALSE
    /\ lk_stop = FALSE

\* DataBuffer.append
LkAppendCall == lk_pc["ingest"] = "idle" /\ LkGoto("ingest", "append_want")
LkAppendLock == lk_pc["ingest"] = "append_want" /\ LkEnter("ingest", "buffer", "append_in")
LkAppendUnlock == lk_pc["ingest"] = "append_in" /\ LkLeave("ingest", "buffer", "idle")

\* DataBuffer.get_recent
LkRecentCall == lk_pc["reader"] = "idle" /\ LkGoto("reader", "recent_want")
LkRecentLock == lk_pc["reader"] = "recent_want" /\ LkEnter("reader", "buffer", "recent_in")
LkRecentUnlock == lk_pc["reader"] = "recent_in" /\ LkLeave("reader", "buffer", "idle")

\* RecorderManager.get_status: the manager lock, and inside it
\* RecordFileWriter.samples_written (the writer lock) when a session is active.
LkStatusCall == lk_pc["reader"] = "idle" /\ LkGoto("reader", "status_want_m")

LkStatusLock ==
    /\ lk_pc["reader"] = "status_want_m"
    /\ LkEnter("reader", "manager",
               IF lk_recording THEN "status_want_w" ELSE "status_ret")

LkStatusWriterLock ==
    lk_pc["reader"] = "status_want_w" /\ LkEnter("reader", "writer", "status_in_w")

LkStatusWriterUnlock ==
    lk_pc["reader"] = "status_in_w" /\ LkLeave("reader", "writer", "status_ret")

LkStatusUnlock == lk_pc["reader"] = "status_ret" /\ LkLeave("reader", "manager", "idle")

\* RecordingWorkerThread.run: current_write_index, then the loop: the stop
\* test, get_since_index under the buffer lock, and with new samples
\* append_rows: the file-handle check, then the writer lock (the flush inside
\* may raise, which ends the thread).
LkWorkerInitLock ==
    lk_pc["worker"] = "w_init_want" /\ LkEnter("worker", "buffer", "w_init_in")

LkWorkerInitUnlock ==
    lk_pc["worker"] = "w_init_in" /\ LkLeave("worker", "buffer", "w_top")

LkWorkerTop ==
    /\ lk_pc["worker"] = "w_top"
    /\ LkGoto("worker", IF lk_stop THEN "dead" ELSE "w_poll_want")

LkWorkerPollLock ==
    lk_pc["worker"] = "w_poll_want" /\ LkEnter("worker", "buffer", "w_poll_in")

LkWorkerPollUnlock ==
    /\ lk_pc["worker"] = "w_poll_in"
    /\ \E got \in BOOLEAN :
         LkLeave("worker", "buffer", IF got THEN "w_check" ELSE "w_top")

LkWorkerCheck ==
    /\ lk_pc["worker"] = "w_check"
    /\ LkGoto("worker", IF lk_handle THEN "w_app_want" ELSE "dead")

LkWorkerAppendLock ==
    lk_pc["worker"] = "w_app_want" /\ LkEnter("worker", "writer", "w_app_in")

LkWorkerAppendUnlock ==
    /\ lk_pc["worker"] = "w_app_in"
    /\ \E raised \in BOOLEAN :
         LkLeave("worker", "writer", IF raised THEN "dead" ELSE "w_top")

\* RecorderManager.start_recording: the manager lock; the is_recording guard;
\* the writer is opened and the worker started; get_status re-enters the
\* manager lock and takes the writer lock; a failure goes through
\* _cleanup_failed_recording inside the manager lock.  (A start is explored
\* only when no worker thread is alive.)
LkStartCall ==
    /\ lk_pc["caller"] = "idle"
    /\ lk_pc["worker"] \in {"none", "dead"}
    /\ LkGoto("caller", "start_want_m")

LkStartLock ==
    /\ lk_pc["caller"] = "start_want_m"
    /\ LkEnter("caller", "manager", IF lk_recording THEN "ctl_ret" ELSE "start_open")

LkStartOpen ==
    /\ lk_pc["caller"] = "start_open"
    /\ \E ok \in BOOLEAN :
         IF ok
         THEN LkSet(lk_owner, lk_count,
                    [lk_pc EXCEPT !["caller"] = "start_status_want_m",
                                  !["worker"] = "w_init_want"],
                    TRUE, TRUE, FALSE)
         ELSE LkSet(lk_owner, lk_count, at("caller", "cleanup_close_want"),
                    lk_recording, FALSE, lk_stop)

LkStartStatusLock ==
    /\ lk_pc["caller"] = "start_status_want_m"
    /\ LkEnter("caller", "manager", "start_status_want_w")

LkStartStatusWriterLock ==
    /\ lk_pc["caller"] = "start_status_want_w"
    /\ LkEnter("caller", "writer", "start_status_in_w")

LkStartStatusWriterUnlock ==
    /\ lk_pc["caller"] = "start_status_in_w"
    /\ LkLeave("caller", "writer", "start_status_ret")

LkStartStatusUnlock ==
    /\ lk_pc["caller"] = "start_status_ret"
    /\ \E raised \in BOOLEAN :
         LkLeave("caller", "manager", IF raised THEN "cleanup_join" ELSE "ctl_ret")

\* RecorderManager.stop_recording: the manager lock; the guard; the worker is
\* told to stop and joined with a timeout; RecordFileWriter.close under the
\* writer lock; on an exception _cleanup_failed_recording.
LkStopCall == lk_pc["caller"] = "idle" /\ LkGoto("caller", "stop_want_m")

LkStopLock ==
    /\ lk_pc["caller"] = "stop_want_m"
    /\ can_acquire("caller", "manager")
    /\ LkSet(own_acq("caller", "manager"), cnt_acq("manager"),
             at("caller", IF lk_recording THEN "stop_join" ELSE "ctl_ret"),
             lk_recording, lk_handle, lk_stop \/ lk_recording)

LkStopJoin == lk_pc["caller"] = "stop_join" /\ LkGoto("caller", "close_want")

LkCloseLock == lk_pc["caller"] = "close_want" /\ LkEnter("caller", "writer", "close_in")

LkCloseUnlock ==
    /\ lk_pc["caller"] = "close_in"
    /\ \E raised \in BOOLEAN :
         LkSet(own_rel("caller", "writer"), cnt_rel("writer"),
               at("caller", IF raised THEN "cleanup_join" ELSE "ctl_ret"),
               IF raised THEN lk_recording ELSE FALSE, FALSE, lk_stop)

\* _cleanup_failed_recording: worker.stop() (set, join with timeout), then
\* close() once more under the writer lock, errors ignored, then the reset.
LkCleanupStop ==
    /\ lk_pc["caller"] = "cleanup_join"
    /\ LkSet(lk_owner, lk_count, at("caller", "cleanup_close_want"),
             lk_recording, lk_handle, TRUE)

LkCleanupCloseLock ==
    /\ lk_pc["caller"] = "cleanup_close_want"
    /\ LkEnter("caller", "writer", "cleanup_close_in")

LkCleanupCloseUnlock ==
    /\ lk_pc["caller"] = "cleanup_close_in"
    /\ LkSet(own_rel("caller", "writer"), cnt_rel("writer"), at("caller", "ctl_ret"),
             FALSE, FALSE, lk_stop)

\* The end of start_recording / stop_recording: the manager lock is left.
LkReturn == lk_pc["caller"] = "ctl_ret" /\ LkLeave("caller", "manager", "idle")

\* ---------------------------------------------------------- specifications
ReaderInit ==
    /\ last = NoCall
    /\ rd_index = 0
    /\ rd_got = <<>>
    /\ rd_lost = FALSE

Init ==
    /\ \E cap \in 0..MaxCapacity : BufferInit(cap)
    /\ ReaderInit
    /\ RecorderInit
    /\ FrameInit
    /\ SupervisorInit
    /\ RoundTripInit
    /\ ScanInit
    /\ CollectionInit
    /\ LocksInit
    /\ SessionInit

\* The DataBuffer with its callers.
Next ==
    \/ Ingest(MaxAppends) /\ UNCHANGED <<pureVars, rdVars, recVars, faVars, appVars>>
    \/ CallGetRecent /\ UNCHANGED <<pureVars, recVars, faVars, appVars>>
    \/ CallGetSince /\ UNCHANGED <<pureVars, recVars, faVars, appVars>>
    \/ ReaderPoll /\ UNCHANGED <<pureVars, recVars, faVars, appVars>>
    \/ CallClear /\ UNCHANGED <<pureVars, recVars, faVars, appVars>>

Spec == Init /\ [][Next]_vars

\* The recording pipeline: ingestion, the manager's callers, the workers
\* (nobody calls clear() on the buffer).
InitRecorder ==
    /\ \E cap \in {1, MaxRecorded} : BufferInit(cap)
    /\ ReaderInit
    /\ RecorderInit
    /\ FrameInit
    /\ SupervisorInit
    /\ RoundTripInit
    /\ ScanInit
    /\ CollectionInit
    /\ LocksInit
    /\ SessionInit

NextRecorder ==
    \/ Ingest(MaxRecorded) /\ UNCHANGED <<pureVars, rdVars, recVars, faVars, appVars>>
    \/ StartRecording /\ UNCHANGED <<pureVars, faVars, appVars>>
    \/ StartCleanup /\ UNCHANGED <<pureVars, faVars, appVars>>
    \/ StopBegin /\ UNCHANGED <<pureVars, faVars, appVars>>
    \/ StopFinish /\ UNCHANGED <<pureVars, faVars, appVars>>
    \/ WorkerStep /\ UNCHANGED <<pureVars, faVars, appVars>>

SpecRecorder == InitRecorder /\ [][NextRecorder]_vars

\* A recording during which the buffer is cleared: ingestion, clear(), the
\* start of a session and its worker (the session is not stopped).
NextClearing ==
    \/ Ingest(MaxRecorded) /\ UNCHANGED <<pureVars, rdVars, recVars, faVars, appVars>>
    \/ CallClear /\ UNCHANGED <<pureVars, recVars, faVars, appVars>>
    \/ StartRecording /\ UNCHANGED <<pureVars, faVars, appVars>>
    \/ StartCleanup /\ UNCHANGED <<pureVars, faVars, appVars>>
    \/ WorkerStep /\ UNCHANGED <<pureVars, faVars, appVars>>

SpecClearing == InitRecorder /\ [][NextClearing]_vars

\* The recording pipeline with its threads scheduled: every worker thread
\* that can take a step eventually takes one, and the caller of stop_recording
\* goes on when join(timeout=5.0) returns.
WorkerRuns(s) == WorkerStepOf(s) /\ UNCHANGED <<pureVars, faVars, appVars>>

StopReturns == StopFinish /\ UNCHANGED <<pureVars, faVars, appVars>>

SpecRecorderFair ==
    /\ InitRecorder
    /\ [][NextRecorder]_vars
    /\ \A s \in Sessions : WF_vars(WorkerRuns(s))
    /\ WF_vars(StopReturns)

\* The recording pipeline entered with a session in progress whose worker has
\* kept up with the first DefaultBufferSize - 1 rows: the state reached from
\* construction by start_recording and, that many times, an append followed
\* by a poll and append_rows.  One more row makes the write buffer due for
\* its flush.
NearFlushPending == DefaultBufferSize - 1

InitNearFlush ==
    /\ max_size = 2
    /\ buffer = Ids(NearFlushPending - 2, NearFlushPending - 1)
    /\ write_index = NearFlushPending
    /\ base_index = NearFlushPending - 2
    /\ fill_level = 2
    /\ appended = NearFlushPending
    /\ cleared = FALSE
    /\ buffer_lock = 0
    /\ last = [NoCall EXCEPT !.op = "append", !.arg = NearFlushPending - 1]
    /\ rd_index = 0
    /\ rd_got = <<>>
    /\ rd_lost = FALSE
    /\ clock = 0
    /\ is_recording = TRUE
    /\ current_session = 0
    /\ file_writer = 1
    /\ worker_thread = 1
    /\ mgr_start_time = 0
    /\ mgr_pc = "idle"
    /\ writers = [s \in Sessions |->
                     IF s = 1
                     THEN [NoWriter EXCEPT
                              !.created = TRUE, !.filepath = 0,
                              !.file_handle = TRUE, !.handle_open = TRUE,
                              !.write_buffer = format_rows(Ids(0, NearFlushPending - 1)),
                              !.sample_count = NearFlushPending]
                     ELSE NoWriter]
    /\ workers = [s \in Sessions |->
                     IF s = 1
                     THEN [NoWorker EXCEPT !.pc = "loop",
                                           !.last_read_index = NearFlushPending]
                     ELSE NoWorker]
    /\ files = [q \in Paths |->
                   IF q = 0 THEN [exists |-> TRUE, header |-> TRUE, rows |-> <<>>]
                   ELSE NoFile]
    /\ meta = [q \in Paths |-> -1]
    /\ sessions = 1
    /\ start_wi = 0
    /\ stop_wi = -1
    /\ mcall = [NoMgrCall EXCEPT !.op = "start", !.result = "ok", !.session = 1]
    /\ failed_sessions = {}
    /\ lossy_sessions = {}
    /\ FrameInit
    /\ SupervisorInit
    /\ RoundTripInit
    /\ ScanInit
    /\ CollectionInit
    /\ LocksInit
    /\ SessionInit

NextNearFlush ==
    \/ Ingest(NearFlushPending + MaxRecorded) /\ UNCHANGED <<pureVars, rdVars, recVars, faVars, appVars>>
    \/ StartRecording /\ UNCHANGED <<pureVars, faVars, appVars>>
    \/ StartCleanup /\ UNCHANGED <<pureVars, faVars, appVars>>
    \/ StopBegin /\ UNCHANGED <<pureVars, faVars, appVars>>
    \/ StopFinish /\ UNCHANGED <<pureVars, faVars, appVars>>
    \/ WorkerStep /\ UNCHANGED <<pureVars, faVars, appVars>>

SpecNearFlush == InitNearFlush /\ [][NextNearFlush]_vars

\* The recording pipeline with a caller that lists the recordings.
InitListing ==
    /\ BufferInit(1)
    /\ ReaderInit
    /\ RecorderInit
    /\ FrameInit
    /\ SupervisorInit
    /\ RoundTripInit
    /\ ScanInit
    /\ CollectionInit
    /\ LocksInit
    /\ SessionInit

NextListing ==
    \/ Ingest(MaxListedRows) /\ UNCHANGED <<pureVars, rdVars, recVars, faVars, appVars>>
    \/ StartRecording /\ UNCHANGED <<pureVars, faVars, appVars>>
    \/ StartCleanup /\ UNCHANGED <<pureVars, faVars, appVars>>
    \/ StopBegin /\ UNCHANGED <<pureVars, faVars, appVars>>
    \/ StopFinish /\ UNCHANGED <<pureVars, faVars, appVars>>
    \/ WorkerStep /\ UNCHANGED <<pureVars, faVars, appVars>>
    \/ ListRecordings /\ UNCHANGED <<pureVars, faVars, appVars>>

SpecListing == InitListing /\ [][NextListing]_vars

\* The line assembler fed by notifications of arbitrary fragments.
InitFrame ==
    /\ BufferInit(1)
    /\ ReaderInit
    /\ RecorderInit
    /\ FrameInit
    /\ SupervisorInit
    /\ RoundTripInit
    /\ ScanInit
    /\ CollectionInit
    /\ LocksInit
    /\ SessionInit

NextFrame == Notify /\ UNCHANGED pureVars

SpecFrame == InitFrame /\ [][NextFrame]_vars

\* Line assembly entered with the accumulator at its soft limit: the state
\* reached from FrameInit when SoftLimit + 1 LF bytes have been received
\* and nothing else (the call discards the first empty line and stops; so
\* does every call of a sequence of notifications of two or more LF bytes,
\* each leaving the accumulator longer than before); MaxTail more bytes
\* follow.
InitNearLimit ==
    /\ BufferInit(1)
    /\ ReaderInit
    /\ RecorderInit
    /\ fa_buffer = [i \in 1..SoftLimit |-> LF]
    /\ fa_dumped = FALSE
    /\ fa_fed = [i \in 1..(SoftLimit + 1) |-> LF]
    /\ fa_out = <<>>
    /\ SupervisorInit
    /\ RoundTripInit
    /\ ScanInit
    /\ CollectionInit
    /\ LocksInit
    /\ SessionInit

NextNearLimit == NotifyUpTo(SoftLimit + 1 + MaxTail) /\ UNCHANGED pureVars

SpecNearLimit == InitNearLimit /\ [][NextNearLimit]_vars

\* The retry loop of the data collection worker with its data stream, the
\* stop request and the pause switch.
InitSupervisor ==
    /\ \E cap \in 1..2 : BufferInit(cap)
    /\ ReaderInit
    /\ RecorderInit
    /\ FrameInit
    /\ SupervisorInit
    /\ RoundTripInit
    /\ ScanInit
    /\ CollectionInit
    /\ LocksInit
    /\ SessionInit

NextSupervisor ==
    \/ SupLoop /\ UNCHANGED <<pureVars, rdVars, recVars, faVars, sessVars>>
    \/ SupRow /\ UNCHANGED <<pureVars, rdVars, recVars, faVars, sessVars>>
    \/ SupStreamEnd /\ UNCHANGED <<pureVars, rdVars, recVars, faVars, sessVars>>
    \/ SupFail /\ UNCHANGED <<pureVars, rdVars, recVars, faVars, sessVars>>
    \/ SupWake /\ UNCHANGED <<pureVars, rdVars, recVars, faVars, sessVars>>
    \/ SupCancel /\ UNCHANGED <<pureVars, rdVars, recVars, faVars, sessVars>>
    \/ StopDataCollection /\ UNCHANGED <<pureVars, rdVars, recVars, faVars, sessVars>>
    \/ TogglePause /\ UNCHANGED <<pureVars, rdVars, recVars, faVars, sessVars>>

SpecSupervisor == InitSupervisor /\ [][NextSupervisor]_vars

\* The retry loop under the scheduling the event loop gives it: a coroutine
\* that can run does run (the while test and what follows it), and a backoff
\* sleep returns.  Nothing is assumed of the device (rows, failures) nor of
\* the callers (stop, pause, cancellation).
SupLoopStep == SupLoop /\ UNCHANGED <<rdVars, recVars, faVars, sessVars, pureVars>>
SupWakeStep == SupWake /\ UNCHANGED <<rdVars, recVars, faVars, sessVars, pureVars>>

SpecSupervisorFair ==
    /\ InitSupervisor
    /\ [][NextSupervisor]_vars
    /\ WF_vars(SupLoopStep)
    /\ WF_vars(SupWakeStep)

\* One received line parsed, formatted by the recorder and parsed again.
InitRoundTrip ==
    /\ BufferInit(1)
    /\ ReaderInit
    /\ RecorderInit
    /\ FrameInit
    /\ SupervisorInit
    /\ SessionInit
    /\ ScanInit
    /\ CollectionInit
    /\ LocksInit
    /\ rt_pc = "line"
    /\ rt_line \in RoundTripLines
    /\ rt_row = <<>>
    /\ rt_csv = <<>>
    /\ rt_back = <<>>

NextRoundTrip ==
    \/ RtParse /\ UNCHANGED <<bufVars, last, rdVars, recVars, faVars, appVars, scanVars, dcVars, lkVars>>
    \/ RtFormat /\ UNCHANGED <<bufVars, last, rdVars, recVars, faVars, appVars, scanVars, dcVars, lkVars>>
    \/ RtReparse /\ UNCHANGED <<bufVars, last, rdVars, recVars, faVars, appVars, scanVars, dcVars, lkVars>>

SpecRoundTrip == InitRoundTrip /\ [][NextRoundTrip]_vars

\* The callers of start_data_collection and stop_data_collection (callbacks
\* of the user interface, each in its own server thread) and the
\* data-collection threads.
InitCollection ==
    /\ BufferInit(1)
    /\ ReaderInit
    /\ RecorderInit
    /\ FrameInit
    /\ SupervisorInit
    /\ SessionInit
    /\ RoundTripInit
    /\ ScanInit
    /\ CollectionInit
    /\ LocksInit

dcRest == <<bufVars, last, rdVars, recVars, faVars, sessVars, rtVars, scanVars, lkVars>>

NextCollection ==
    \/ \E c \in Callers : DcStartCheck(c) /\ dcSupUnchanged /\ UNCHANGED dcRest
    \/ \E c \in Callers : DcStartClear(c) /\ dcSupUnchanged /\ UNCHANGED dcRest
    \/ \E c \in Callers : DcStartCreate(c) /\ dcSupUnchanged /\ UNCHANGED dcRest
    \/ \E c \in Callers : DcStartStart(c) /\ dcSupUnchanged /\ UNCHANGED dcRest
    \/ \E c \in Callers : DcStopSet(c) /\ dcSupUnchanged /\ UNCHANGED dcRest
    \/ \E c \in Callers : DcStopJoined(c) /\ dcSupUnchanged /\ UNCHANGED dcRest
    \/ \E t \in DataThreads : DataThreadExit(t) /\ dcSupUnchanged /\ UNCHANGED dcRest

SpecCollection == InitCollection /\ [][NextCollection]_vars

\* The threads that use the three locks.
InitLocks ==
    /\ BufferInit(1)
    /\ ReaderInit
    /\ RecorderInit
    /\ FrameInit
    /\ SupervisorInit
    /\ SessionInit
    /\ RoundTripInit
    /\ ScanInit
    /\ CollectionInit
    /\ LocksInit

lkRest == <<bufVars, last, rdVars, recVars, faVars, appVars, rtVars, scanVars, dcVars>>

NextLocks ==
    \/ LkAppendCall /\ UNCHANGED lkRest
    \/ LkAppendLock /\ UNCHANGED lkRest
    \/ LkAppendUnlock /\ UNCHANGED lkRest
    \/ LkRecentCall /\ UNCHANGED lkRest
    \/ LkRecentLock /\ UNCHANGED lkRest
    \/ LkRecentUnlock /\ UNCHANGED lkRest
    \/ LkStatusCall /\ UNCHANGED lkRest
    \/ LkStatusLock /\ UNCHANGED lkRest
    \/ LkStatusWriterLock /\ UNCHANGED lkRest
    \/ LkStatusWriterUnlock /\ UNCHANGED lkRest
    \/ LkStatusUnlock /\ UNCHANGED lkRest
    \/ LkWorkerInitLock /\ UNCHANGED lkRest
    \/ LkWorkerInitUnlock /\ UNCHANGED lkRest
    \/ LkWorkerTop /\ UNCHANGED lkRest
    \/ LkWorkerPollLock /\ UNCHANGED lkRest
    \/ LkWorkerPollUnlock /\ UNCHANGED lkRest
    \/ LkWorkerCheck /\ UNCHANGED lkRest
    \/ LkWorkerAppendLock /\ UNCHANGED lkRest
    \/ LkWorkerAppendUnlock /\ UNCHANGED lkRest
    \/ LkStartCall /\ UNCHANGED lkRest
    \/ LkStartLock /\ UNCHANGED lkRest
    \/ LkStartOpen /\ UNCHANGED lkRest
    \/ LkStartStatusLock /\ UNCHANGED lkRest
    \/ LkStartStatusWriterLock /\ UNCHANGED lkRest
    \/ LkStartStatusWriterUnlock /\ UNCHANGED lkRest
    \/ LkStartStatusUnlock /\ UNCHANGED lkRest
    \/ LkStopCall /\ UNCHANGED lkRest
    \/ LkStopLock /\ UNCHANGED lkRest
    \/ LkStopJoin /\ UNCHANGED lkRest
    \/ LkCloseLock /\ UNCHANGED lkRest
    \/ LkCloseUnlock /\ UNCHANGED lkRest
    \/ LkCleanupStop /\ UNCHANGED lkRest
    \/ LkCleanupCloseLock /\ UNCHANGED lkRest
    \/ LkCleanupCloseUnlock /\ UNCHANGED lkRest
    \/ LkReturn /\ UNCHANGED lkRest

SpecLocks == InitLocks /\ [][NextLocks]_vars

\* One call of find_device on the results of a scan.
InitScan ==
    /\ BufferInit(1)
    /\ ReaderInit
    /\ RecorderInit
    /\ FrameInit
    /\ SupervisorInit
    /\ SessionInit
    /\ RoundTripInit
    /\ CollectionInit
    /\ LocksInit
    /\ scan_pc = "scanned"
    /\ scan_results \in ScanLists(MaxScan)
    /\ scan_found = 0

NextScan ==
    FindDevice /\ UNCHANGED <<bufVars, last, rdVars, recVars, faVars, appVars, rtVars,
                            dcVars, lkVars>>

SpecScan == InitScan /\ [][NextScan]_vars

\* One stream_rows session: the transport (notifications, disconnect), the
\* consumer loop and the consumer of the rows, with and without idle timeout.
InitSession ==
    /\ BufferInit(1)
    /\ ReaderInit
    /\ RecorderInit
    /\ FrameInit
    /\ SupervisorInit
    /\ RoundTripInit
    /\ ScanInit
    /\ CollectionInit
    /\ LocksInit
    /\ ss_pc = "init"
    /\ ss_idle_timeout \in BOOLEAN
    /\ ss_connected = FALSE
    /\ ss_disconnected = FALSE
    /\ ss_notifying = FALSE
    /\ ss_queue = <<>>
    /\ ss_yielded = <<>>
    /\ ss_result = ""
    /\ ss_unsubs = 0
    /\ ss_notes = 0
    /\ ss_last = ""

NextSession ==
    \/ SessOpen /\ UNCHANGED <<pureVars, bufVars, last, rdVars, recVars, supVars>>
    \/ OnDisconnect /\ UNCHANGED <<pureVars, bufVars, last, rdVars, recVars, supVars>>
    \/ SessNotify /\ UNCHANGED <<pureVars, bufVars, last, rdVars, recVars, supVars>>
    \/ SessGet /\ UNCHANGED <<pureVars, bufVars, last, rdVars, recVars, supVars>>
    \/ SessTimeout /\ UNCHANGED <<pureVars, bufVars, last, rdVars, recVars, supVars>>
    \/ SessResume /\ UNCHANGED <<pureVars, bufVars, last, rdVars, recVars, supVars>>
    \/ SessBreak /\ UNCHANGED <<pureVars, bufVars, last, rdVars, recVars, supVars>>
    \/ SessClose /\ UNCHANGED <<pureVars, bufVars, last, rdVars, recVars, supVars>>
    \/ SessCancel /\ UNCHANGED <<pureVars, bufVars, last, rdVars, recVars, supVars>>

SpecSession == InitSession /\ [][NextSession]_vars

\* ------------------------------------------------------------------ C1
\* C1: a reader that passes back next_index on every call is handed, by every
\* call that reports dropped = False, exactly the rows with logical indices
\* last_index .. write_index - 1 in append order; it is never handed a row
\* twice, and as long as no call reported a loss it has been handed every row
\* appended before its last call (no clear() involved).
C1_ExactIncrementalRead ==
    ~cleared =>
        /\ (last.op = "reader" /\ ~last.dropped) =>
               /\ last.samples = Ids(last.arg, write_index - 1)
               /\ last.next_index = write_index
        /\ StrictlyIncreasing(rd_got)
        /\ ~rd_lost => rd_got = Ids(0, rd_index - 1)

C1_Witness ==
    /\ ~cleared
    /\ last.op = "reader"
    /\ ~last.dropped
    /\ last.arg > base_index
    /\ base_index > 0
    /\ Len(last.samples) >= 2

\* ------------------------------------------------------------------ C2
\* C2: in every reachable state write_index - base_index is the number of rows
\* held, and that number never exceeds the capacity.
C2_IndexInvariant ==
    /\ write_index - base_index = Len(buffer)
    /\ Len(buffer) <= max_size

C2_Witness ==
    /\ cleared
    /\ base_index > 0
    /\ Len(buffer) = max_size
    /\ max_size >= 2
    /\ last.op = "append"

\* ------------------------------------------------------------------ C3
\* C3: get_since_index with an index below base_index reports dropped = True
\* with the whole buffer and next_index = write_index; with the current
\* write_index it returns no rows, next_index = write_index, dropped = False.
C3_GetSinceEdges ==
    (last.op \in {"get_since_index", "reader"}) =>
        /\ last.arg < base_index =>
               /\ last.dropped
               /\ last.samples = buffer
               /\ last.next_index = write_index
        /\ last.arg = write_index =>
               /\ ~last.dropped
               /\ last.samples = <<>>
               /\ last.next_index = write_index

C3_Witness ==
    /\ last.op = "get_since_index"
    /\ last.arg < base_index
    /\ last.dropped
    /\ Len(last.samples) >= 2

C3_WitnessNoNewData ==
    /\ last.op = "get_since_index"
    /\ last.arg = write_index
    /\ write_index > base_index
    /\ base_index > 0

\* ------------------------------------------------------------------ C4
\* The end-to-end scenario: rows are appended, recording starts, more rows are
\* appended, recording stops and returns a SessionInfo; the buffer never
\* evicted or cleared anything, and nothing was appended after stop was called.
C4_Scenario ==
    /\ mcall.op = "stop"
    /\ mcall.result = "ok"
    /\ sessions = mcall.session
    /\ ~cleared
    /\ base_index = 0
    /\ start_wi > 0
    /\ stop_wi > start_wi
    /\ write_index = stop_wi

C4_FileRows == files[writers[mcall.session].filepath].rows

\* C4 as stated: after append 250 / start / append 100 / stop the file holds
\* the header and one data row for every row appended (before and during the
\* recording), and total_samples counts them all.  (Stated for the runs most
\* favourable to it: the worker has finished before the file is closed and
\* has written every row appended during the recording.)
C4_AllAppendedRowsRecorded ==
    (C4_Scenario /\ mcall.joined /\ Len(C4_FileRows) >= stop_wi - start_wi) =>
        /\ files[writers[mcall.session].filepath].header
        /\ Len(C4_FileRows) = write_index
        /\ mcall.total_samples = write_index
        /\ mcall.meta_written => meta[writers[mcall.session].filepath] = write_index

\* C4 amended: the file holds the header and at most one data row for each row
\* appended after start (none of the rows appended before it), in append
\* order, and total_samples (SessionInfo and metadata) is the number of data
\* rows in the file.
C4_OnlyRowsAfterStartRecorded ==
    C4_Scenario =>
        /\ files[writers[mcall.session].filepath].header
        /\ \A k \in 1..Len(C4_FileRows) :
               /\ C4_FileRows[k].csv >= start_wi
               /\ C4_FileRows[k].csv < stop_wi
        /\ \A j, k \in 1..Len(C4_FileRows) :
               j < k => C4_FileRows[j].csv < C4_FileRows[k].csv
        /\ Len(C4_FileRows) <= stop_wi - start_wi
        /\ mcall.total_samples = Len(C4_FileRows)
        /\ mcall.meta_written =>
               meta[writers[mcall.session].filepath] = Len(C4_FileRows)

C4_Witness ==
    /\ C4_Scenario
    /\ start_wi >= 1
    /\ Len(C4_FileRows) = stop_wi - start_wi
    /\ Len(C4_FileRows) >= 2
    /\ mcall.meta_written
    /\ mcall.joined

\* ------------------------------------------------------------------ C5
\* C5: a start_recording call made while a session is active fails with
\* "Recording already in progress" and changes nothing: the manager is still
\* recording the same session with the same writer and worker, and no file,
\* writer or worker is touched or created.
C5_SecondStartRejected ==
    [][(StartRecording /\ is_recording) =>
          /\ mcall'.op = "start"
          /\ mcall'.result = "Recording already in progress"
          /\ is_recording'
          /\ UNCHANGED <<mgrVars, writers, workers, files, meta, sessions>>]_vars

C5_Witness ==
    /\ mcall.op = "start"
    /\ mcall.result = "Recording already in progress"
    /\ is_recording
    /\ sessions = 1
    /\ writers[1].sample_count > 0

\* ------------------------------------------------------------------ C6
\* C6: a stop_recording call made while no session is active fails with
\* "No recording in progress" and changes no manager state; start_recording
\* is not rejected afterwards.
C6_StopWithoutSessionRejected ==
    [][(StopBegin /\ ~is_recording) =>
          /\ mcall'.op = "stop"
          /\ mcall'.result = "No recording in progress"
          /\ mgr_pc' = "idle"
          /\ UNCHANGED <<mgrVars, writers, workers, files, meta, sessions>>
          /\ ~start_recording_rejects(is_recording')]_vars

C6_Witness ==
    /\ mcall.op = "stop"
    /\ mcall.result = "No recording in progress"
    /\ sessions = 1
    /\ meta[writers[1].filepath] >= 1

C6_WitnessNeverStarted ==
    /\ mcall.op = "stop"
    /\ mcall.result = "No recording in progress"
    /\ sessions = 0

\* ------------------------------------------------------------------ C7
\* C7: however the byte stream is cut into notification fragments, the lines
\* queued are the lines queued when the same bytes arrive as one fragment.
C7_SplitEqualsWhole ==
    fa_out = handle(<<>>, FALSE, fa_fed).lines

\* ------------------------------------------------------------------ C8
\* C8: as long as every attempt has failed (the stream never yielded a row,
\* never ended normally, nobody requested a stop or cancelled the task), at
\* most 5 attempts have been started, one per failure counted; the loop ends
\* only after exactly 5 attempts and then with the terminal failure reported.
C8_FiveAttemptsThenTerminalFailure ==
    (sup_rows = 0 /\ ~app_stop_event /\ sup_result \notin {"ended", "cancelled"}) =>
        /\ sup_attempts <= MaxRetries
        /\ sup_attempts = retry_count + (IF sup_pc = "stream" THEN 1 ELSE 0)
        /\ sup_result = "gave_up" <=> (retry_count = MaxRetries)
        /\ sup_pc = "done" => (sup_attempts = MaxRetries /\ sup_result = "gave_up")

C8_Witness ==
    /\ sup_pc = "done"
    /\ sup_result = "gave_up"
    /\ sup_attempts = MaxRetries
    /\ sup_rows = 0
    /\ ~app_stop_event

\* ------------------------------------------------------------------ C9
\* C9: the retry loop gives up only after 5 failed attempts in a row, that is
\* 5 failures since the data stream last delivered a record.
C9_GiveUpOnlyAfterFiveFailuresInARow ==
    sup_result = "gave_up" => sup_streak >= MaxRetries

\* ----------------------------------------------------------------- C10
\* C10: once the disconnect callback has run, a consumer waiting on the queue
\* with no idle timeout has the sentinel in the queue to wake it.
C10_DisconnectWakesConsumer ==
    (ss_disconnected /\ ~ss_idle_timeout /\ ss_pc = "waiting") =>
        \E i \in 1..Len(ss_queue) : ss_queue[i].none

\* ----------------------------------------------------------------- C11
\* C11: once a session that subscribed to notifications is over (it raised,
\* or its consumer stopped the stream), stop_notify has been called exactly
\* once.
C11_UnsubscribedExactlyOnce ==
    (/\ ss_pc \in {"done", "abandoned"}
     /\ ss_result \notin {"DeviceNotFound", "ConnectionFailed", "SubscribeFailed"}) =>
        ss_unsubs = 1

\* ----------------------------------------------------------------- C12
\* C12: a recording worker that is in append_rows (the handle check, the
\* formatting of the rows, the flush to the file) does not hold the buffer
\* lock, so DataBuffer.append is not kept waiting by the file I/O.
C12_NoBufferLockDuringFileIO ==
    \A s \in Sessions :
        workers[s].pc \in {"write", "append"} => buffer_lock # s

C12_Witness ==
    \E s \in Sessions :
        /\ workers[s].pc = "append"
        /\ workers[s].new_samples # <<>>
        /\ write_index > workers[s].next_index
        /\ last.op = "append"

\* C13: when start_recording fails and the error has propagated, the manager
\* is rolled back (not recording, no session, writer or worker referenced),
\* the worker thread of the failed start is not running, the file of the
\* failed start is closed, and a following start_recording is not rejected.
C13_StartFailureRolledBack ==
    (mcall.op = "start" /\ mcall.result = "error") =>
        /\ ~is_recording
        /\ current_session = -1
        /\ mgr_start_time = -1
        /\ file_writer = 0
        /\ worker_thread = 0
        /\ ~is_alive(workers[mcall.session])
        /\ ~writers[mcall.session].handle_open
        /\ ~start_recording_rejects(is_recording)

\* C14: when stop_recording has raised, the manager is not recording, holds
\* no session, start time, writer or worker, and a following start_recording
\* is not rejected.
C14_StopFailureResetsManager ==
    (mcall.op = "stop" /\ mcall.result \in {"error", "No file writer available"}) =>
        /\ mgr_pc = "idle"
        /\ ~is_recording
        /\ current_session = -1
        /\ mgr_start_time = -1
        /\ file_writer = 0
        /\ worker_thread = 0
        /\ ~start_recording_rejects(is_recording)

\* A stop_recording that raised while closing a file that holds recorded rows.
C14_Witness ==
    /\ mcall.op = "stop"
    /\ mcall.result = "error"
    /\ files[writers[mcall.session].filepath].rows # <<>>
    /\ sessions < MaxSessions

\* C15: stop_recording does not return a SessionInfo for a session whose
\* worker thread ended with an error.
C15_WorkerErrorPropagates ==
    (mcall.op = "stop" /\ mcall.result = "ok") => ~mcall.worker_error

\* C16: once start_recording or stop_recording has returned or raised, every
\* file handle that is still open belongs to the writer of the session in
\* progress.
C16_NoHandleLeftOpen ==
    mgr_pc = "idle" =>
        \A s \in Sessions : writers[s].handle_open => file_writer = s

\* C17: a session whose start was rolled back, whose worker failed or whose
\* close raised has no metadata file and is in no listing (sessions that
\* share their file name with another one are left aside).
C17_OnlyCompletedRecordingsListed ==
    \A s \in failed_sessions :
        (\A t \in Sessions \ {s} :
             writers[t].created => writers[t].filepath # writers[s].filepath) =>
            /\ meta[writers[s].filepath] = -1
            /\ mcall.op = "list" =>
                   \A k \in 1..Len(mcall.listing) :
                       mcall.listing[k].session_id # writers[s].filepath

C19_LossySessionMarked ==
    \A a \in lossy_sessions \ failed_sessions :
        \A b \in Sessions \ (lossy_sessions \cup failed_sessions \cup {file_writer}) :
            (/\ writers[b].created
             /\ ~writers[b].file_handle
             /\ ~writers[b].handle_open
             /\ ~workers[b].saw_dropped) =>
                \E f \in DOMAIN session_info(writers[a])
                           \ {"session_id", "file_path", "start_time"} :
                    session_info(writers[a])[f] # session_info(writers[b])[f]

is_line(q) == ~q.none

\* The lines the consumer loop has taken from the queue so far.
consumed_lines ==
    SubSeq(fa_out, 1, Len(fa_out) - Len(SelectSeq(ss_queue, is_line)))

C21_RecentAfterOverflow ==
    (/\ last.op = "get_recent"
     /\ last.arg = max_size
     /\ write_index >= max_size) =>
        last.samples = Ids(appended - max_size, appended - 1)

\* get_recent(max_size) answered on a buffer of at least two rows that has
\* already dropped rows.
C21_Witness ==
    /\ last.op = "get_recent"
    /\ last.arg = max_size
    /\ max_size >= 2
    /\ write_index > max_size
    /\ Len(last.samples) = max_size

\* C22: get_recent(n) returns at most n rows, namely the min(n, occupancy)
\* most recent rows of the buffer, oldest first.
C22_RecentAtMostN ==
    last.op = "get_recent" =>
        /\ Len(last.samples) <= last.arg
        /\ last.samples = SubSeq(buffer, Len(buffer) - Min(last.arg, Len(buffer)) + 1,
                                 Len(buffer))

\* C23: after clear() the buffer is empty and write_index, base_index and the
\* fill level are 0.
C23_ClearResets ==
    last.op = "clear" =>
        /\ buffer = <<>>
        /\ write_index = 0
        /\ base_index = 0
        /\ fill_level = 0

\* clear() called on a buffer that had dropped rows.
C23_Witness ==
    /\ last.op = "clear"
    /\ max_size >= 1
    /\ appended > max_size

\* C24: the total_samples of a SessionInfo returned by stop_recording, and of
\* the metadata file written with it, is the number of data rows in the
\* closed file; and while a writer is open its sample count is the number of
\* rows in its file plus the number of rows in its write buffer.
C24_CountEqualsRows ==
    /\ (mcall.op = "stop" /\ mcall.result = "ok") =>
          LET p == writers[mcall.session].filepath
          IN /\ mcall.total_samples = Len(files[p].rows)
             /\ mcall.meta_written => meta[p] = Len(files[p].rows)
    /\ \A s \in Sessions :
          (writers[s].file_handle /\ writers[s].handle_open) =>
              writers[s].sample_count =
                  Len(files[writers[s].filepath].rows) + Len(writers[s].write_buffer)

\* C25: once stop_data_collection has set the stop event (with the device
\* still able to deliver rows), the collection loop eventually terminates,
\* its data source stopped.
C25_StopEventuallyTerminates ==
    (app_stop_event /\ sup_rows < MaxDelivered) ~> (sup_pc = "done" /\ ~src_connected)

\* C26: a row parsed from a valid line, formatted by _format_csv_row and
\* parsed again equals the row it came from.
C26_RoundTrip ==
    rt_pc = "reparsed" => rt_back = rt_row

\* C27: when the scan holds a device with the wanted name and another device
\* that matches by service id only, find_device returns a device with the
\* wanted name, in whichever order the scan lists them.
C27_NameMatchWins ==
    (/\ scan_pc = "returned"
     /\ \E i, j \in 1..Len(scan_results) :
           /\ i # j
           /\ scan_results[i].name = DEVICE_NAME
           /\ scan_results[j].name # DEVICE_NAME
           /\ match_device(scan_results[j], DEVICE_NAME, NUS_SERVICE)) =>
        /\ scan_found # 0
        /\ scan_results[scan_found].name = DEVICE_NAME

\* C28: a queue wait that times out ends the session with "BLE connection
\* lost." only if the disconnect flag is set or the transport is not
\* connected, and then every line queued so far has been taken from the queue
\* and every row among them yielded; a timeout with the transport connected
\* leaves the consumer loop waiting, the session open and subscribed.
C28_IdleTimeout ==
    [][/\ (ss_last' = "timeout_lost" /\ ss_pc = "waiting") =>
             /\ ss_idle_timeout
             /\ ss_disconnected \/ ~ss_connected
             /\ ss_result' = "ConnectionLost"
             /\ ss_pc' = "done"
             /\ ss_queue = <<>>
             /\ consumed_lines = fa_out
             /\ ss_yielded' = SelectSeq(fa_out, parse_csv_ok)
       /\ (ss_last' = "timeout" /\ ss_last # "timeout") =>
             /\ ss_idle_timeout
             /\ ss_connected /\ ~ss_disconnected
             /\ ss_pc = "waiting" /\ ss_pc' = "waiting"
             /\ ss_result' = ""
             /\ ss_notifying'
             /\ ss_unsubs' = 0
      ]_vars

\* The session ended by an idle timeout after the link was lost, with a row
\* that was queued before the loss already yielded.
C28_Witness ==
    /\ ss_last = "timeout_lost"
    /\ ss_result = "ConnectionLost"
    /\ ss_disconnected
    /\ ss_yielded # <<>>
    /\ ss_unsubs = 1

\* The wait was resumed after a timeout with the transport still connected.
C28_WitnessResumed ==
    /\ ss_last = "timeout"
    /\ ss_pc = "waiting"
    /\ ss_connected
    /\ ss_result = ""

\* C29: the backoff wait happens only between attempts: never before the first
\* attempt, never once the loop has given up, and the wait that follows the
\* k-th failure in a row (k failures since the stream last delivered a record)
\* lasts 3 s x 1.5^(k-1).
C29_BackoffBetweenAttempts ==
    sup_pc = "sleep" =>
        /\ sup_attempts >= 1
        /\ sup_result = "running"
        /\ sup_streak \in 1..(MaxRetries - 1)
        /\ sup_delay = current_delay(sup_streak)

\* C30: a worker that finds its stop flag set at the top of its loop leaves
\* the loop instead of polling again; a worker whose stop flag is set
\* eventually terminates; and stop_recording, once it waits in the join,
\* eventually goes on and returns, whether or not the worker has finished.
C30_StopFlagEndsWorker ==
    /\ [][\A s \in Sessions :
             (workers[s].pc = "loop" /\ workers[s].stop_event
                  /\ workers'[s].pc # "loop") => workers'[s].pc = "done"]_vars
    /\ \A s \in Sessions :
          (workers[s].stop_event /\ is_alive(workers[s])) ~> ~is_alive(workers[s])
    /\ (mgr_pc = "joining") ~> (mgr_pc = "idle")

\* stop_recording returned successfully while the worker it had told to stop
\* was still running (the join timed out), and that worker has since left its
\* loop without an error.
C30_Witness ==
    /\ mcall.op = "stop" /\ mcall.result = "ok" /\ ~mcall.joined
    /\ workers[mcall.session].stop_event
    /\ workers[mcall.session].pc = "done"
    /\ ~workers[mcall.session].error

\* C31: an append_rows on an open writer that returns normally leaves fewer
\* than buffer_size (100) rows in the write buffer, and when the rows pending
\* with the new ones reach buffer_size all of them are written to the file,
\* in order, and the write buffer is left empty; a stop_recording that
\* returns a SessionInfo has written every row of the write buffer to the file
\* and closed it.
C31_FlushPolicy ==
    [][/\ \A s \in Sessions :
            (workers[s].pc = "append" /\ workers'[s].pc = "loop"
                 /\ writers[s].file_handle) =>
               LET p == writers[s].filepath
                   pending == writers[s].write_buffer \o format_rows(workers[s].new_samples)
               IN /\ Len(writers'[s].write_buffer) < DefaultBufferSize
                  /\ IF Len(pending) >= DefaultBufferSize
                     THEN /\ writers'[s].write_buffer = <<>>
                          /\ files'[p].rows = files[p].rows \o pending
                     ELSE /\ writers'[s].write_buffer = pending
                          /\ files'[p].rows = files[p].rows
       /\ (mgr_pc = "joining" /\ mgr_pc' = "idle" /\ mcall'.result = "ok") =>
             LET s == mcall'.session
                 p == writers[s].filepath
             IN /\ files'[p].rows = files[p].rows \o writers[s].write_buffer
                /\ writers'[s].write_buffer = <<>>
                /\ ~writers'[s].handle_open
      ]_vars

\* The write buffer reached buffer_size and was flushed while the session
\* went on, later rows are pending, and a stop then flushed those as well.
C31_Witness ==
    /\ mcall.op = "stop" /\ mcall.result = "ok"
    /\ Len(files[writers[mcall.session].filepath].rows) > DefaultBufferSize
    /\ writers[mcall.session].write_buffer = <<>>
    /\ ~workers[mcall.session].error

\* C32: when the notification handler returns, the accumulator holds no
\* delimiter byte: every complete line in it has been extracted, the lines
\* that follow a discarded line included.
C32_NoCompleteLineLeft ==
    \A i \in 1..Len(fa_buffer) : fa_buffer[i] \notin Delimiters

\* C33: when the notification handler returns, the accumulator holds at most
\* 64 KiB.
C33_AccumulatorBounded ==
    Len(fa_buffer) <= SoftLimit

\* C34: a start_recording that succeeds does not open (and so truncate) a
\* file that holds the rows of an earlier session of the manager.
C34_SessionFileNamesUnique ==
    [][(sessions' = sessions + 1 /\ mcall'.result = "ok") =>
           files[writers'[sessions'].filepath].rows = <<>>]_vars

\* C35: at most one data-collection thread is alive at any time.
C35_AtMostOneDataThread ==
    Cardinality({t \in DataThreads : thread_alive(t)}) <= 1

\* C36: when stop_recording returns a SessionInfo and the buffer has neither
\* evicted nor cleared anything, the file of the session holds every row
\* appended between the return of start_recording and the call of
\* stop_recording.  (Stated for the runs in which the worker has finished
\* before the join returns.)
C36_NoRowMissed ==
    (/\ mcall.op = "stop" /\ mcall.result = "ok" /\ mcall.joined
     /\ ~mcall.worker_error
     /\ sessions = mcall.session
     /\ ~cleared /\ base_index = 0) =>
        \A i \in start_wi..(stop_wi - 1) :
            \E k \in 1..Len(files[writers[mcall.session].filepath].rows) :
                files[writers[mcall.session].filepath].rows[k].csv = i

\* C37: the data rows of every file are in strictly increasing order of the
\* buffer index of their records: no record is written twice and none out of
\* order.
C37_RowsStrictlyIncreasing ==
    \A p \in Paths :
        \A j, k \in 1..Len(files[p].rows) :
            j < k => files[p].rows[j].csv < files[p].rows[k].csv

\* C38: a poll of the worker of a session that has not been told to stop,
\* made with its read index ahead of the write index (the buffer has been
\* cleared since the worker last read it, so every record in the buffer was
\* appended after the clear and has not been recorded) returns every record
\* in the buffer or reports dropped = True.
C38_NoSilentLossAfterClear ==
    [][\A s \in Sessions :
          (/\ workers[s].pc = "poll" /\ workers'[s].pc # "poll"
           /\ ~workers[s].stop_event
           /\ workers[s].last_read_index > write_index) =>
             LET r == get_since_index(buffer, write_index, base_index,
                                      workers[s].last_read_index)
             IN \/ r.dropped
                \/ \A i \in 1..Len(buffer) :
                      \E k \in 1..Len(r.samples) : r.samples[k] = buffer[i]
      ]_vars

\* A session for which stop_recording has returned a SessionInfo (and whose
\* worker ended without an error).
C39_Stopped(s) ==
    /\ writers[s].created
    /\ ~writers[s].file_handle /\ ~writers[s].handle_open
    /\ s \notin failed_sessions
    /\ file_writer # s

\* C39: once stop_recording has returned for a session, the rows of its file
\* and the sample count reported for it (the metadata file) never change.
C39_FinalAfterStop ==
    [][\A s \in Sessions :
          C39_Stopped(s) =>
              /\ files'[writers[s].filepath].rows = files[writers[s].filepath].rows
              /\ meta'[writers[s].filepath] = meta[writers[s].filepath]
      ]_vars

\* A thread that cannot go on: the lock it needs is held by another thread, or
\* by itself when the lock is not reentrant.
C40_Blocked(t) ==
    /\ wanted(lk_pc[t]) # "none"
    /\ ~can_acquire(t, wanted(lk_pc[t]))

\* C40: no set of threads is deadlocked (each blocked on a lock held by a
\* thread of the set), a thread that is in no operation holds no lock, and the
\* only lock asked for while another is held is the writer lock under the
\* manager lock.
C40_NoDeadlock ==
    /\ \A t \in LockThreads : \A l \in Locks :
          (lk_owner[l] = t /\ wanted(lk_pc[t]) \notin {"none", l})
              => (l = "manager" /\ wanted(lk_pc[t]) = "writer")
    /\ \A S \in (SUBSET LockThreads) \ {{}} :
          \E t \in S : ~(C40_Blocked(t) /\ lk_owner[wanted(lk_pc[t])] \in S)
    /\ \A l \in Locks :
          lk_owner[l] # "free" => lk_pc[lk_owner[l]] \notin {"idle", "none", "dead"}

\* Contention without deadlock: stop_recording holds the manager lock and
\* waits for the writer lock, which the worker holds inside append_rows, while
\* get_status waits for the manager lock and the ingestion path holds the
\* buffer lock.
C40_Witness ==
    /\ lk_owner["manager"] = "caller" /\ lk_pc["caller"] = "close_want"
    /\ lk_owner["writer"] = "worker" /\ lk_pc["worker"] = "w_app_in"
    /\ lk_pc["reader"] = "status_want_m"
    /\ lk_owner["buffer"] = "ingest"
====
